---- MODULE Spec2Model ----
(***************************************************************************)
(* Exact-arithmetic linear-algebra engine of Spaces-Frontend:              *)
(*   Fraction (fractionUtils.js), Matrix and computeRREF                   *)
(*   (rrefCalculator.js), the four subspaces (spaceCalculator.js).         *)
(*                                                                         *)
(* JavaScript objects are modelled as the program holds them: a Fraction   *)
(* is an immutable value; a row of a Matrix is an array object living in   *)
(* `heap` and named by its index there; a Matrix is its outer array of row *)
(* references with its rows and cols fields.  Row and column indices are   *)
(* the program's 0-based indices; heap and sequences are 1-based.          *)
(***************************************************************************)
EXTENDS Integers, Sequences, FiniteSets, TLC

(***************************************************************************)
(* Bounds of the model.                                                    *)
(***************************************************************************)
\* largest number of cells (rows * cols) of an input grid
MaxCells == 6
\* largest number a cell of an input grid holds (the smallest is -1)
MaxVal == 1
\* largest absolute value of an integer handed to the Fraction constructor
MaxNum == 4
\* largest number of Matrix method calls after a clone
MaxOps == 2

\* computeAllSpaces accepts at most 5 rows and 5 columns
MaxDim == 5


(***************************************************************************)
(* Fraction                                                                *)
(***************************************************************************)
\* Math.abs
Abs(x) == IF x < 0 THEN -x ELSE x

\* a thrown Error, carried as a value
Thrown(msg) == [error |-> msg]
IsThrown(v) == "error" \in DOMAIN v

\* Fraction.gcd, on the non-negative arguments the constructor passes
RECURSIVE gcd(_, _)
gcd(a, b) == IF b = 0 THEN a ELSE gcd(b, a % b)

\* a constructor that forgets the reduction by the gcd
FractionUnreduced(numerator, denominator) ==
    IF denominator = 0 THEN Thrown("Denominator cannot be zero")
    ELSE [numerator |-> IF denominator < 0 THEN -numerator ELSE numerator,
          denominator |-> Abs(denominator)]

\* the number NaN
NaN == [nan |-> TRUE]
isNaN(value) == "nan" \in DOMAIN value

\* the range of a JavaScript number, scaled down to what the integers of the
\* model hold: a magnitude above MaxFinite stands for one above
\* Number.MAX_VALUE, which a product or a sum yields as Infinity
MaxFinite == 30000

\* the number is Infinity or -Infinity
IsInfinite(x) == Abs(x) > MaxFinite

\* new Fraction(numerator, denominator).  With an infinite argument
\* Fraction.gcd calls itself on NaN without end (NaN === 0 is false), which
\* ends in the RangeError of the call stack; only gcd(0, Infinity) returns
\* (Infinity), and leaves the Fraction 0 / NaN.
Fraction(numerator, denominator) ==
    IF denominator = 0 THEN Thrown("Denominator cannot be zero")
    ELSE IF numerator = 0 /\ IsInfinite(denominator)
    THEN [numerator |-> 0, denominator |-> NaN]
    ELSE IF IsInfinite(numerator) \/ IsInfinite(denominator)
    THEN Thrown("Maximum call stack size exceeded")
    ELSE LET n == IF denominator < 0 THEN -numerator ELSE numerator
             d == IF denominator < 0 THEN -denominator ELSE denominator
             g == gcd(Abs(n), Abs(d))
         IN  [numerator |-> n \div g, denominator |-> d \div g]

add(this, other) ==
    Fraction(this.numerator * other.denominator + other.numerator * this.denominator,
             this.denominator * other.denominator)

subtract(this, other) ==
    Fraction(this.numerator * other.denominator - other.numerator * this.denominator,
             this.denominator * other.denominator)

multiply(this, other) ==
    Fraction(this.numerator * other.numerator, this.denominator * other.denominator)

divide(this, other) ==
    IF other.numerator = 0 THEN Thrown("Division by zero")
    ELSE Fraction(this.numerator * other.denominator, this.denominator * other.numerator)

negate(this) == Fraction(-this.numerator, this.denominator)

isZero(this) == this.numerator = 0

equals(this, other) ==
    /\ "numerator" \in DOMAIN other
    /\ this.numerator = other.numerator
    /\ this.denominator = other.denominator

\* Math.abs(a.toNumber()) > Math.abs(b.toNumber()): the quotients
\* numerator / denominator compared as numbers (denominators are positive)
AbsGreater(a, b) ==
    Abs(a.numerator) * b.denominator > Abs(b.numerator) * a.denominator

\* a JavaScript number whose value is the rational num / den (den > 0); an
\* integer number has den = 1
Number(num, den) == [num |-> num, den |-> den]
IsNumber(value) == "num" \in DOMAIN value
IsFraction(value) == "numerator" \in DOMAIN value

\* default of Fraction.fromDecimal's maxDenominator
MaxDenominator == 10000
\* 1e-10 = 1 / (EpsRoot * EpsRoot)
EpsRoot == 100000

\* Math.round of the non-negative rational p / q
Round(p, q) == (2 * p + q) \div (2 * q)

\* the search loop of Fraction.fromDecimal for the positive decimal p / q:
\* best is <<bestNumerator, bestDenominator>>, whose error is
\* |p * best[2] - best[1] * q| / (q * best[2])
RECURSIVE fromDecimalSearch(_, _, _, _, _)
fromDecimalSearch(p, q, denominator, best, maxDenominator) ==
    IF denominator > maxDenominator THEN best
    ELSE LET numerator == Round(p * denominator, q)
             err       == Abs(p * denominator - numerator * q)
             bestErr   == Abs(p * best[2] - best[1] * q)
         IN  IF err * best[2] < bestErr * denominator
             THEN IF err * EpsRoot <= (q * denominator - 1) \div EpsRoot
                  THEN <<numerator, denominator>>
                  ELSE fromDecimalSearch(p, q, denominator + 1,
                                         <<numerator, denominator>>, maxDenominator)
             ELSE fromDecimalSearch(p, q, denominator + 1, best, maxDenominator)

\* Fraction.fromDecimal(decimal), maxDenominator at its default
fromDecimal(decimal) ==
    IF decimal.num % decimal.den = 0
    THEN Fraction(decimal.num \div decimal.den, 1)
    ELSE LET sign == IF decimal.num < 0 THEN -1 ELSE 1
             best == fromDecimalSearch(Abs(decimal.num), decimal.den, 1, <<1, 1>>,
                                       MaxDenominator)
         IN  Fraction(sign * best[1], best[2])

(***************************************************************************)
(* Strings and numbers.  A JavaScript string is the record of its          *)
(* characters; a finite number is its exact rational value in lowest       *)
(* terms; NaN is a value of its own.                                       *)
(***************************************************************************)
String(chars) == [chars |-> chars]
IsString(value) == "chars" \in DOMAIN value

\* the number whose value is p / q (q # 0)
Num(p, q) ==
    LET n == IF q < 0 THEN -p ELSE p
        d == Abs(q)
        g == gcd(Abs(n), d)
    IN  Number(n \div g, d \div g)

\* a / b of two finite numbers, b not zero
Quotient(a, b) == Num(a.num * b.den, a.den * b.num)

Digits == <<"0", "1", "2", "3", "4", "5", "6", "7", "8", "9">>
IsDigit(c) == \E k \in 1..10 : Digits[k] = c
DigitValue(c) == (CHOOSE k \in 1..10 : Digits[k] = c) - 1

\* String.prototype.trim, on the space character
RECURSIVE trimStart(_)
trimStart(s) == IF Len(s) > 0 /\ s[1] = " " THEN trimStart(Tail(s)) ELSE s

RECURSIVE trimEnd(_)
trimEnd(s) ==
    IF Len(s) > 0 /\ s[Len(s)] = " " THEN trimEnd(SubSeq(s, 1, Len(s) - 1)) ELSE s

trim(s) == trimEnd(trimStart(s))

\* String.prototype.includes('/')
includes(s, c) == \E k \in 1..Len(s) : s[k] = c

\* String.prototype.split('/')
RECURSIVE split(_, _)
split(s, c) ==
    IF ~includes(s, c) THEN <<s>>
    ELSE LET k == CHOOSE k \in 1..Len(s) :
                      s[k] = c /\ \A l \in 1..(k - 1) : s[l] # c
         IN  <<SubSeq(s, 1, k - 1)>> \o split(SubSeq(s, k + 1, Len(s)), c)

\* the number of digits s starts with
RECURSIVE DigitsPrefix(_)
DigitsPrefix(s) ==
    IF Len(s) > 0 /\ IsDigit(s[1]) THEN 1 + DigitsPrefix(Tail(s)) ELSE 0

\* the value of a string of digits, after the value acc of the digits before
RECURSIVE DigitsValue(_, _)
DigitsValue(s, acc) ==
    IF Len(s) = 0 THEN acc ELSE DigitsValue(Tail(s), 10 * acc + DigitValue(s[1]))

RECURSIVE Pow10(_)
Pow10(k) == IF k = 0 THEN 1 ELSE 10 * Pow10(k - 1)

\* the number read from the digits before and after the point, NaN when
\* there is no digit at all
ParsedValue(sign, whole, fraction) ==
    IF Len(whole) = 0 /\ Len(fraction) = 0 THEN NaN
    ELSE Num(sign * (DigitsValue(whole, 0) * Pow10(Len(fraction))
                         + DigitsValue(fraction, 0)),
             Pow10(Len(fraction)))

\* the digits after a point that rest starts with
FractionDigits(rest) ==
    IF Len(rest) > 0 /\ rest[1] = "."
    THEN SubSeq(rest, 2, 1 + DigitsPrefix(Tail(rest)))
    ELSE <<>>

\* the number read from u, the text after the sign
ParseUnsigned(sign, u) ==
    ParsedValue(sign, SubSeq(u, 1, DigitsPrefix(u)),
                FractionDigits(SubSeq(u, DigitsPrefix(u) + 1, Len(u))))

\* the number read from t, the text after the leading spaces
ParseSigned(t) ==
    IF Len(t) > 0 /\ t[1] = "-" THEN ParseUnsigned(-1, Tail(t))
    ELSE IF Len(t) > 0 /\ t[1] = "+" THEN ParseUnsigned(1, Tail(t))
    ELSE ParseUnsigned(1, t)

\* parseFloat: leading spaces are skipped, then the longest prefix
\* [+-] digits [. digits] is read and what follows it is ignored; NaN when
\* that prefix holds no digit.  (Exponents and "Infinity" are not read: the
\* strings of the model hold no letter e and no letter I.)
parseFloat(s) == ParseSigned(trimStart(s))

\* lines 15-18 of parseMatrixCell
CellQuotient(num, den) ==
    IF isNaN(num) \/ isNaN(den) THEN Thrown("Invalid fraction")
    ELSE IF den.num = 0 THEN Thrown("Invalid fraction")
    ELSE Quotient(num, den)

\* lines 21-25 of parseMatrixCell
CellNumber(num) == IF isNaN(num) THEN Thrown("Invalid number") ELSE num

\* the second part of a split text
SecondPart(parts) == parts[2]

\* lines 11-25 of parseMatrixCell
ParseTrimmedCell(trimmed) ==
    IF trimmed = <<>> THEN Number(0, 1)
    ELSE IF includes(trimmed, "/")
    THEN CellQuotient(parseFloat(trim(Head(split(trimmed, "/")))),
                      parseFloat(trim(SecondPart(split(trimmed, "/")))))
    ELSE CellNumber(parseFloat(trimmed))

\* parseMatrixCell of matrixUtils.js: a number, or a thrown Error
parseMatrixCell(value) == ParseTrimmedCell(trim(value.chars))

\* Number.prototype.toString of a non-negative integer, and of an integer
RECURSIVE digitsOf(_)
digitsOf(n) == IF n < 10 THEN <<Digits[n + 1]>> ELSE digitsOf(n \div 10) \o <<Digits[(n % 10) + 1]>>

numberToString(n) == IF n < 0 THEN <<"-">> \o digitsOf(-n) ELSE digitsOf(n)

\* a toString that prints the denominator also when it is 1
toStringWithDenominator(this) ==
    String(numberToString(this.numerator) \o <<"/">>
               \o numberToString(this.denominator))

\* Fraction.toString
toString(this) ==
    IF this.denominator = 1 THEN String(numberToString(this.numerator))
    ELSE String(numberToString(this.numerator) \o <<"/">>
                    \o numberToString(this.denominator))

\* new Fraction(num, den) of two finite numbers: the constructor's gcd runs
\* Euclid's algorithm on the two numbers themselves, which for the integers
\* num and den is Fraction(num, den)
FractionOfNumbers(num, den) == Fraction(num.num * den.den, num.den * den.num)

\* lines 136-139 of Fraction.fromString
StringQuotient(num, den) ==
    IF isNaN(num) \/ isNaN(den) THEN Thrown("Invalid fraction")
    ELSE FractionOfNumbers(num, den)

\* lines 142-148 of Fraction.fromString
StringNumber(num) == IF isNaN(num) THEN Thrown("Invalid number") ELSE fromDecimal(num)

\* lines 134-148 of Fraction.fromString
FromTrimmedString(trimmed) ==
    IF includes(trimmed, "/")
    THEN StringQuotient(parseFloat(trim(Head(split(trimmed, "/")))),
                        parseFloat(trim(SecondPart(split(trimmed, "/")))))
    ELSE StringNumber(parseFloat(trimmed))

\* Fraction.fromString
fromString(str) == FromTrimmedString(trim(str.chars))

\* Fraction.from: a Fraction is returned as it is, a number is converted
from(value) ==
    IF IsFraction(value) THEN value
    ELSE IF IsString(value) THEN fromString(value)
    ELSE IF IsNumber(value) THEN fromDecimal(value)
    ELSE Thrown("Cannot convert to Fraction")

(***************************************************************************)
(* Matrix.  h is the heap of row arrays, M a Matrix object.                *)
(***************************************************************************)
\* the entries of M, row by row, as values
Values(h, M) == [i \in 1..Len(M.data) |-> h[M.data[i]]]

\* new Matrix(data)
NewMatrix(h, data) ==
    [heap   |-> h \o [i \in 1..Len(data) |-> [j \in 1..Len(data[i]) |-> from(data[i][j])]],
     matrix |-> [data |-> [i \in 1..Len(data) |-> Len(h) + i],
                 rows |-> Len(data),
                 cols |-> IF Len(data) > 0 THEN Len(data[1]) ELSE 0]]

get(h, M, i, j) == h[M.data[i + 1]][j + 1]

\* Matrix.set writes one cell of the row array
set(h, M, i, j, value) ==
    [h EXCEPT ![M.data[i + 1]] = [@ EXCEPT ![j + 1] = from(value)]]

\* a clone whose outer array is new and whose row arrays are the original's
cloneShallow(h, M) == [heap |-> h, matrix |-> M]

\* Matrix.clone: a new row array per row, holding the same Fractions
clone(h, M) ==
    [heap   |-> h \o [i \in 1..Len(M.data) |-> h[M.data[i]]],
     matrix |-> [data |-> [i \in 1..Len(M.data) |-> Len(h) + i],
                 rows |-> M.rows,
                 cols |-> M.cols]]

\* Matrix.swapRows exchanges two references of the outer array
swapRows(M, i, j) ==
    [M EXCEPT !.data = [@ EXCEPT ![i + 1] = M.data[j + 1], ![j + 1] = M.data[i + 1]]]

\* Matrix.multiplyRow writes the row array in place
multiplyRow(h, M, i, scalar) ==
    LET frac == from(scalar)
    IN  [h EXCEPT ![M.data[i + 1]] =
            [k \in 1..Len(@) |-> IF k <= M.cols THEN multiply(@[k], frac) ELSE @[k]]]

\* Matrix.addRowMultiple: row[i] += scalar * row[j], in place
addRowMultiple(h, M, i, j, scalar) ==
    LET frac == from(scalar)
        src  == h[M.data[j + 1]]
    IN  [h EXCEPT ![M.data[i + 1]] =
            [k \in 1..Len(@) |-> IF k > M.cols THEN @[k]
                                 ELSE IF IsThrown(multiply(src[k], frac))
                                 THEN multiply(src[k], frac)
                                 ELSE add(@[k], multiply(src[k], frac))]]

\* Matrix.transpose: new row arrays
transpose(h, M) ==
    [heap   |-> h \o [j \in 1..M.cols |-> [i \in 1..M.rows |-> h[M.data[i]][j]]],
     matrix |-> [data |-> [j \in 1..M.cols |-> Len(h) + j],
                 rows |-> M.cols,
                 cols |-> M.rows]]

(***************************************************************************)
(* computeRREF.  A call is the record of its locals: m (the working        *)
(* clone), pivots, operations, currentRow, col, the cursor `row` of the    *)
(* elimination loop and its position pc.  The notation and description     *)
(* strings of an operation record are display text and are left out.       *)
(***************************************************************************)
\* matrixAfter of a record that updateLastOperation has not reached yet
Undefined == [data |-> <<>>, rows |-> -1, cols |-> -1]

\* an entry that reduces the caller's matrix in place
EnterRREFInPlace(h, matrix, trackOperations) ==
    [heap |-> h,
     call |-> [m               |-> matrix,
               pivots          |-> <<>>,
               operations      |-> [null |-> ~trackOperations, array |-> <<>>],
               trackOperations |-> trackOperations,
               currentRow      |-> 0,
               col             |-> 0,
               row             |-> 0,
               pc              |-> "pivot"]]

\* an entry that makes the operations array whether or not it was asked for
EnterRREFAlwaysLog(h, matrix, trackOperations) ==
    LET c == clone(h, matrix)
    IN  [heap |-> c.heap,
         call |-> [m               |-> c.matrix,
                   pivots          |-> <<>>,
                   operations      |-> [null |-> FALSE, array |-> <<>>],
                   trackOperations |-> trackOperations,
                   currentRow      |-> 0,
                   col             |-> 0,
                   row             |-> 0,
                   pc              |-> "pivot"]]

\* lines 125-128: the locals as the loop is entered
EnterRREF(h, matrix, trackOperations) ==
    LET c == clone(h, matrix)
    IN  [heap |-> c.heap,
         call |-> [m               |-> c.matrix,
                   pivots          |-> <<>>,
                   operations      |-> [null |-> ~trackOperations, array |-> <<>>],
                   trackOperations |-> trackOperations,
                   currentRow      |-> 0,
                   col             |-> 0,
                   row             |-> 0,
                   pc              |-> "pivot"]]

\* a recordOperation that stores the working matrix itself, not a clone
recordOperationNoClone(h, f, type, params) ==
    IF ~f.trackOperations THEN [heap |-> h, call |-> f]
    ELSE [heap |-> h,
          call |-> [f EXCEPT !.operations.array =
                       Append(@, [type         |-> type,
                                  params       |-> params,
                                  matrixBefore |-> f.m,
                                  matrixAfter  |-> Undefined])]]

\* recordOperation: push a record holding a clone of m
recordOperation(h, f, type, params) ==
    IF ~f.trackOperations THEN [heap |-> h, call |-> f]
    ELSE LET c == clone(h, f.m)
         IN  [heap |-> c.heap,
              call |-> [f EXCEPT !.operations.array =
                           Append(@, [type         |-> type,
                                      params       |-> params,
                                      matrixBefore |-> c.matrix,
                                      matrixAfter  |-> Undefined])]]

\* updateLastOperation: the last record gets a clone of m as matrixAfter
updateLastOperation(h, f) ==
    IF ~f.trackOperations \/ Len(f.operations.array) = 0 THEN [heap |-> h, call |-> f]
    ELSE LET c == clone(h, f.m)
         IN  [heap |-> c.heap,
              call |-> [f EXCEPT !.operations.array[Len(f.operations.array)].matrixAfter =
                           c.matrix]]

\* the loop condition of line 148
LoopCond(f) == f.col < f.m.cols /\ f.currentRow < f.m.rows

\* a pivot search that takes the first nonzero entry, not the largest
RECURSIVE findPivotFirstNonZero(_, _, _, _, _)
findPivotFirstNonZero(h, m, col, row, pivotRow) ==
    IF row >= m.rows THEN pivotRow
    ELSE findPivotFirstNonZero(h, m, col, row + 1,
            IF isZero(get(h, m, pivotRow, col)) /\ ~isZero(get(h, m, row, col))
            THEN row ELSE pivotRow)

\* lines 150-159: the row of the largest absolute value in col, from
\* currentRow down; maxVal is the absolute value at pivotRow
RECURSIVE findPivot(_, _, _, _, _)
findPivot(h, m, col, row, pivotRow) ==
    IF row >= m.rows THEN pivotRow
    ELSE findPivot(h, m, col, row + 1,
            IF AbsGreater(get(h, m, row, col), get(h, m, pivotRow, col))
            THEN row ELSE pivotRow)

PivotRow(h, f) == findPivot(h, f.m, f.col, f.currentRow + 1, f.currentRow)

\* a zero test that looks at the entry of currentRow, not of the pivot row
ColumnIsZeroAtCurrentRow(h, f) == isZero(get(h, f.m, f.currentRow, f.col))

\* lines 161-164: the column is all zeros from currentRow down
ColumnIsZero(h, f) == isZero(get(h, f.m, PivotRow(h, f), f.col))

\* a skip that stays at the column it found empty
SkipStepSameColumn(h, f) == [heap |-> h, call |-> f]

\* lines 162-164: continue with the next column
SkipStep(h, f) == [heap |-> h, call |-> [f EXCEPT !.col = @ + 1]]

\* a swap step that also swaps, and records, a pivot row with itself
SwapStepAlways(h, f) ==
    LET pivotRow == PivotRow(h, f)
        r == recordOperation(h, f, "swap", [row1 |-> f.currentRow, row2 |-> pivotRow])
        s == [r.call EXCEPT !.m = swapRows(@, f.currentRow, pivotRow)]
        u == updateLastOperation(r.heap, s)
    IN  [heap |-> u.heap, call |-> [u.call EXCEPT !.pc = "scale"]]

\* lines 166-176: swap the pivot row into place when it is another row
SwapStep(h, f) ==
    LET pivotRow == PivotRow(h, f)
    IN  IF pivotRow # f.currentRow
        THEN LET r == recordOperation(h, f, "swap",
                                      [row1 |-> f.currentRow, row2 |-> pivotRow])
                 s == [r.call EXCEPT !.m = swapRows(@, f.currentRow, pivotRow)]
                 u == updateLastOperation(r.heap, s)
             IN  [heap |-> u.heap, call |-> [u.call EXCEPT !.pc = "scale"]]
        ELSE [heap |-> h, call |-> [f EXCEPT !.pc = "scale"]]

\* multiplyRow or addRowMultiple threw on an entry of row i: the row holds
\* the thrown Error in place of a Fraction, and the Error leaves computeRREF
RowThrew(h, M, i) ==
    \E k \in 1..Len(h[M.data[i + 1]]) : IsThrown(h[M.data[i + 1]][k])

\* a scaling step that runs even when the pivot is already 1
ScaleStepAlways(h, f) ==
    LET pivot  == get(h, f.m, f.currentRow, f.col)
        scalar == divide(Fraction(1, 1), pivot)
        r == recordOperation(h, f, "scale", [row |-> f.currentRow, scalar |-> scalar])
        u == updateLastOperation(multiplyRow(r.heap, r.call.m, f.currentRow, scalar), r.call)
    IN  [heap |-> u.heap, call |-> [u.call EXCEPT !.pc = "elim", !.row = 0]]

\* lines 178-193: scale the pivot row by the reciprocal of the pivot
ScaleStep(h, f) ==
    LET pivot == get(h, f.m, f.currentRow, f.col)
        one   == Fraction(1, 1)
    IN  IF ~equals(pivot, one)
        THEN LET scalar == divide(one, pivot)
             IN  IF IsThrown(scalar)
                 THEN [heap |-> h, call |-> [f EXCEPT !.pc = "threw"]]
                 ELSE LET r == recordOperation(h, f, "scale",
                                   [row |-> f.currentRow, scalar |-> scalar])
                          u == updateLastOperation(
                                   multiplyRow(r.heap, r.call.m, f.currentRow, scalar),
                                   r.call)
                      IN  IF RowThrew(u.heap, u.call.m, f.currentRow)
                          THEN [heap |-> u.heap, call |-> [u.call EXCEPT !.pc = "threw"]]
                          ELSE [heap |-> u.heap,
                                call |-> [u.call EXCEPT !.pc = "elim", !.row = 0]]
        ELSE [heap |-> h, call |-> [f EXCEPT !.pc = "elim", !.row = 0]]

\* rows that only the rows below the pivot row are eliminated in
ElimRowsBelow(h, f) ==
    {r \in f.row..(f.m.rows - 1) : r > f.currentRow /\ ~isZero(get(h, f.m, r, f.col))}

\* line 197: the rows the loop still has to eliminate, from its cursor on
ElimRows(h, f) ==
    {r \in f.row..(f.m.rows - 1) : r # f.currentRow /\ ~isZero(get(h, f.m, r, f.col))}

Min(S) == CHOOSE x \in S : \A y \in S : x <= y

\* lines 196-209: the loop runs to the next row with a nonzero entry in col
\* and eliminates it
EliminateStep(h, f) ==
    LET row    == Min(ElimRows(h, f))
        factor == negate(get(h, f.m, row, f.col))
        r == recordOperation(h, f, "add",
                 [targetRow |-> row, sourceRow |-> f.currentRow, scalar |-> factor])
        u == updateLastOperation(
                 addRowMultiple(r.heap, r.call.m, row, f.currentRow, factor), r.call)
    IN  IF RowThrew(u.heap, u.call.m, row)
        THEN [heap |-> u.heap, call |-> [u.call EXCEPT !.pc = "threw"]]
        ELSE [heap |-> u.heap, call |-> [u.call EXCEPT !.row = row + 1]]

\* an advance that pushes the pivot's row index instead of its column
AdvanceStepPushRow(h, f) ==
    [heap |-> h,
     call |-> [f EXCEPT !.pivots = Append(@, f.currentRow),
                        !.currentRow = @ + 1,
                        !.col = @ + 1,
                        !.row = 0,
                        !.pc = "pivot"]]

\* lines 211-212 and the col++ of line 148
AdvanceStep(h, f) ==
    [heap |-> h,
     call |-> [f EXCEPT !.pivots = Append(@, f.col),
                        !.currentRow = @ + 1,
                        !.col = @ + 1,
                        !.row = 0,
                        !.pc = "pivot"]]

\* line 215
ReturnStep(h, f) == [heap |-> h, call |-> [f EXCEPT !.pc = "done"]]

\* the step the call takes next
Step(h, f) ==
    CASE f.pc = "pivot" /\ ~LoopCond(f)              -> ReturnStep(h, f)
      [] f.pc = "pivot" /\ ColumnIsZero(h, f)        -> SkipStep(h, f)
      [] f.pc = "pivot"                              -> SwapStep(h, f)
      [] f.pc = "scale"                              -> ScaleStep(h, f)
      [] f.pc = "elim" /\ ElimRows(h, f) # {}        -> EliminateStep(h, f)
      [] f.pc = "elim"                               -> AdvanceStep(h, f)
      [] OTHER                                       -> [heap |-> h, call |-> f]

\* the call run from the state s = [heap, call] to its return
RECURSIVE RunRREF(_)
RunRREF(s) ==
    IF s.call.pc \in {"done", "threw"} THEN s
    ELSE RunRREF(Step(s.heap, s.call))

\* line 215: { rref: m, pivots, operations } of the finished run r, with the
\* heap it leaves
Returned(r) ==
    [heap       |-> r.heap,
     rref       |-> r.call.m,
     pivots     |-> r.call.pivots,
     operations |-> r.call.operations,
     threw      |-> r.call.pc = "threw"]

\* computeRREF(matrix, trackOperations), run to its return
computeRREF(h, matrix, trackOperations) ==
    Returned(RunRREF(EnterRREF(h, matrix, trackOperations)))

(***************************************************************************)
(* The four subspaces (spaceCalculator.js).  Each function returns the     *)
(* heap it leaves and its basis, a sequence of vectors of Fractions.       *)
(***************************************************************************)
\* isZeroRow(matrix, rowIndex)
isZeroRow(h, matrix, rowIndex) ==
    \A j \in 0..(matrix.cols - 1) : isZero(get(h, matrix, rowIndex, j))

\* getNonZeroRows(matrix): the row arrays of the rows that are not all zero
RECURSIVE getNonZeroRows(_, _, _)
getNonZeroRows(h, matrix, i) ==
    IF i >= matrix.rows THEN <<>>
    ELSE (IF isZeroRow(h, matrix, i) THEN <<>> ELSE <<h[matrix.data[i + 1]]>>)
         \o getNonZeroRows(h, matrix, i + 1)

\* the columns of the reduced matrix at the pivot indices
PivotColumnsOfRREF(r, matrix) ==
    [heap  |-> r.heap,
     basis |-> [k \in 1..Len(r.pivots) |->
                   [i \in 1..matrix.rows |-> get(r.heap, r.rref, i - 1, r.pivots[k])]]]

\* lines 15-26: the columns of the original matrix at the pivot indices of
\* the computeRREF result r
PivotColumns(r, matrix) ==
    [heap  |-> r.heap,
     basis |-> [k \in 1..Len(r.pivots) |->
                   [i \in 1..matrix.rows |-> get(r.heap, matrix, i - 1, r.pivots[k])]]]

\* computeColumnSpace(matrix)
computeColumnSpace(h, matrix) == PivotColumns(computeRREF(h, matrix, FALSE), matrix)

\* lines 35-36, for the computeRREF result r
NonZeroRows(r) == [heap |-> r.heap, basis |-> getNonZeroRows(r.heap, r.rref, 0)]

\* computeRowSpace(matrix)
computeRowSpace(h, matrix) == NonZeroRows(computeRREF(h, matrix, FALSE))

\* a list of the free columns from the last to the first
RECURSIVE FreeVarsDescending(_, _, _)
FreeVarsDescending(pivots, n, j) ==
    IF j >= n THEN <<>>
    ELSE FreeVarsDescending(pivots, n, j + 1)
         \o (IF \E k \in 1..Len(pivots) : pivots[k] = j THEN <<>> ELSE <<j>>)

\* lines 48-53: the columns that are no pivot column, ascending
RECURSIVE FreeVars(_, _, _)
FreeVars(pivots, n, j) ==
    IF j >= n THEN <<>>
    ELSE (IF \E k \in 1..Len(pivots) : pivots[k] = j THEN <<>> ELSE <<j>>)
         \o FreeVars(pivots, n, j + 1)

\* lines 73-75: sum of rref[i][j] * vector[j] for j from the cursor to n - 1
RECURSIVE RowSum(_, _, _, _, _, _, _)
RowSum(h, rref, i, vector, n, j, sum) ==
    IF j >= n THEN sum
    ELSE RowSum(h, rref, i, vector, n, j + 1,
                add(sum, multiply(get(h, rref, i, j), vector[j + 1])))

\* a back-substitution that forgets the sign
RECURSIVE SolvePivotsNoNegate(_, _, _, _, _, _)
SolvePivotsNoNegate(h, rref, pivots, n, i, vector) ==
    IF i < 0 THEN vector
    ELSE SolvePivotsNoNegate(h, rref, pivots, n, i - 1,
            [vector EXCEPT ![pivots[i + 1] + 1] =
                RowSum(h, rref, i, vector, n, pivots[i + 1] + 1, Fraction(0, 1))])

\* lines 68-78: the pivot variables, from the last pivot row to the first
RECURSIVE SolvePivots(_, _, _, _, _, _)
SolvePivots(h, rref, pivots, n, i, vector) ==
    IF i < 0 THEN vector
    ELSE SolvePivots(h, rref, pivots, n, i - 1,
            [vector EXCEPT ![pivots[i + 1] + 1] =
                negate(RowSum(h, rref, i, vector, n, pivots[i + 1] + 1, Fraction(0, 1)))])

\* lines 60-83: one vector per free variable, for the computeRREF result r
NullBasis(r, n, freeVars) ==
    [heap  |-> r.heap,
     basis |-> [k \in 1..Len(freeVars) |->
                   SolvePivots(r.heap, r.rref, r.pivots, n, Len(r.pivots) - 1,
                       [j \in 1..n |-> IF j = freeVars[k] + 1
                                       THEN Fraction(1, 1) ELSE Fraction(0, 1)])]]

\* lines 44-58
NullSpaceOf(r, n) == NullBasis(r, n, FreeVars(r.pivots, n, 0))

\* computeNullSpace(matrix)
computeNullSpace(h, matrix) == NullSpaceOf(computeRREF(h, matrix, FALSE), matrix.cols)

\* line 92, for the transposed matrix t = [heap, matrix]
NullSpaceOfTransposed(t) == computeNullSpace(t.heap, t.matrix)

\* a left null space computed from the matrix itself, not its transpose
computeLeftNullSpaceNoTranspose(h, matrix) == computeNullSpace(h, matrix)

\* computeLeftNullSpace(matrix)
computeLeftNullSpace(h, matrix) == NullSpaceOfTransposed(transpose(h, matrix))

\* Fraction.toNumber: the number numerator / denominator
toNumber(this) == Number(this.numerator, this.denominator)

\* Matrix.toArray
toArray(h, M) == [i \in 1..Len(M.data) |-> [j \in 1..Len(h[M.data[i]]) |->
                     toNumber(h[M.data[i]][j])]]

\* formatBasis(basis).basis: the vectors as numbers (the LaTeX text is
\* display only)
formatBasis(basis) ==
    [k \in 1..Len(basis) |-> [j \in 1..Len(basis[k]) |-> toNumber(basis[k][j])]]

\* the value null
Null == [null |-> TRUE]

\* the cells of a grid in the order map visits them, as <<row, column>>
CellsInOrder(grid) ==
    {<<i, j>> : i \in 1..Len(grid), j \in 1..5} \cap
    {p \in (1..Len(grid)) \X (1..5) : p[2] <= Len(grid[p[1]])}

\* cell p of the grid fails to parse
CellThrows(grid, p) ==
    /\ IsString(grid[p[1]][p[2]])
    /\ IsThrown(parseMatrixCell(grid[p[1]][p[2]]))

\* p comes before q in the order of the two nested maps
Earlier(p, q) == p[1] < q[1] \/ (p[1] = q[1] /\ p[2] < q[2])

\* the first of the failing cells
FirstOf(failing) == CHOOSE p \in failing : \A q \in failing : p = q \/ Earlier(p, q)

\* the Error parseMatrixInput rethrows for the cell p
ParseError(grid, p) ==
    Thrown(<<"Failed to parse matrix: ", parseMatrixCell(grid[p[1]][p[2]]).error>>)

\* the grid of the parsed cells
ParsedGrid(grid) ==
    [parsed |-> [i \in 1..Len(grid) |-> [j \in 1..Len(grid[i]) |->
                    IF IsString(grid[i][j]) THEN parseMatrixCell(grid[i][j])
                    ELSE grid[i][j]]]]

\* the outcome of the two nested maps when the cells `failing` throw
ParseOutcome(grid, failing) ==
    IF failing # {} THEN ParseError(grid, FirstOf(failing)) ELSE ParsedGrid(grid)

\* parseMatrixInput: every string cell goes through parseMatrixCell, the
\* first Error is rethrown with the prefix 'Failed to parse matrix: '
parseMatrixInput(grid) ==
    ParseOutcome(grid, {p \in CellsInOrder(grid) : CellThrows(grid, p)})

\* validateMatrix: the message of the Error it throws, "" when it returns
validateMatrix(matrixData) ==
    IF Len(matrixData) = 0 THEN "Matrix cannot be empty"
    ELSE IF Len(matrixData[1]) = 0 THEN "Matrix must have at least one column"
    ELSE IF Len(matrixData) > MaxDim \/ Len(matrixData[1]) > MaxDim
         THEN "Matrix dimensions must be <= 5x5"
    ELSE IF \E i \in 1..Len(matrixData) : Len(matrixData[i]) # Len(matrixData[1])
         THEN "All rows must have the same number of columns"
    ELSE IF \E i \in 1..Len(matrixData) : \E j \in 1..Len(matrixData[i]) :
                ~IsNumber(matrixData[i][j])
         THEN "Invalid value at position"
    ELSE ""

\* lines 135-149 of computeAllSpaces: the error thrown for matrixData, or
\* "" when it is accepted
ValidationError(matrixData) ==
    IF Len(matrixData) = 0 THEN "Matrix cannot be empty"
    ELSE IF \E i \in 1..Len(matrixData) : Len(matrixData[i]) # Len(matrixData[1])
         THEN "All rows must have the same number of columns"
    ELSE IF Len(matrixData) > MaxDim \/ Len(matrixData[1]) > MaxDim
         THEN "Matrix dimensions must be <= 5x5"
    ELSE ""

\* lines 170-224: the report
Report(h, matrix, rref, pivots, operations, trackOperations, columnSpace, rowSpace, nullSpace, leftNullSpace) ==
    LET m == matrix.rows
        n == matrix.cols
        rank == Len(pivots)
    IN  [matrix          |-> [data |-> toArray(h, matrix), rows |-> m, cols |-> n],
         rank            |-> rank,
         rref            |-> [matrix |-> toArray(h, rref), pivots |-> pivots],
         column_space    |-> [basis |-> formatBasis(columnSpace),
                              dimension |-> Len(columnSpace)],
         row_space       |-> [basis |-> formatBasis(rowSpace),
                              dimension |-> Len(rowSpace)],
         null_space      |-> [basis |-> formatBasis(nullSpace),
                              dimension |-> Len(nullSpace)],
         left_null_space |-> [basis |-> formatBasis(leftNullSpace),
                              dimension |-> Len(leftNullSpace)],
         dimension_check |-> [valid |-> /\ Len(columnSpace) = rank
                                        /\ Len(rowSpace) = rank
                                        /\ Len(nullSpace) = n - rank
                                        /\ Len(leftNullSpace) = m - rank],
         operations      |-> IF trackOperations /\ ~operations.null
                             THEN operations
                             ELSE [null |-> TRUE, array |-> <<>>]]

(***************************************************************************)
(* One computation request: computeAllSpaces(matrixData, trackOperations), *)
(* its first computeRREF call taken one row operation at a time.           *)
(***************************************************************************)
\* canVisualize(results): the result shows the visualization controls
canVisualize(res) ==
    IF "matrix" \notin DOMAIN res THEN FALSE
    ELSE res.matrix.rows <= 3 /\ res.matrix.cols <= 3

VARIABLES
    heap,             \* the row arrays allocated so far
    matrixData,       \* the argument grid
    trackOperations,  \* the argument flag
    matrix,           \* the Matrix of line 152
    call,             \* the computeRREF call of line 155
    pc,               \* position in computeAllSpaces
    columnSpace, rowSpace, nullSpace, leftNullSpace,
    results,          \* the returned report
    copy,             \* the Matrix that matrix.clone() returned
    atClone,          \* the entries of matrix and of copy as clone() returned
    touched,          \* which of the two had a method called on it since
    nOps,             \* how many method calls were made since
    value,            \* what the last Fraction operation gave
    lastOp,           \* that operation and its operands
    input,            \* the grid computeMatrix was called with
    ret,              \* what computeMatrix returned
    cell,             \* the text of one input cell
    loop,             \* the conversion of that cell: its locals and position
    view,             \* RowOperationsDisplay: its prop and its state
    form,             \* MatrixInput: its state
    debounced,        \* a function debounce() returned, with its timers
    throttled,        \* a function throttle() returned, with its timers
    scene             \* Vector3DScene: its effects and their animation frames

vars == <<heap, matrixData, trackOperations, matrix, call, pc,
          columnSpace, rowSpace, nullSpace, leftNullSpace, results,
          copy, atClone, touched, nOps, value, lastOp, input, ret, cell, loop,
          view, form, debounced, throttled, scene>>

requestVars == <<matrixData, trackOperations, call, pc,
                 columnSpace, rowSpace, nullSpace, leftNullSpace, results>>
cloneVars == <<copy, atClone, touched, nOps>>
fractionVars == <<value, lastOp>>
entryVars == <<input, ret>>
cellVars == <<cell, loop>>
uiVars == <<view, form, debounced, throttled, scene>>

\* the numbers a cell of an input grid is drawn from
CellValues == {Number(v, 1) : v \in -1..MaxVal}

\* a grid of integer numbers
Grid(rows) == [i \in 1..Len(rows) |-> [j \in 1..Len(rows[i]) |-> Number(rows[i][j], 1)]]

\* EXAMPLE_MATRICES of mathService.js
EXAMPLE_MATRICES ==
    { Grid(<< <<1, 2, 3>>, <<4, 5, 6>> >>),
      Grid(<< <<1, 0, 0>>, <<0, 1, 0>>, <<0, 0, 1>> >>),
      Grid(<< <<1, 2, 3>>, <<2, 4, 6>>, <<3, 6, 9>> >>),
      Grid(<< <<1, 0, 2, 1>>, <<0, 1, 1, 0>>, <<2, 1, 5, 2>>, <<1, 1, 4, 1>> >>),
      Grid(<< <<1, 0, 1>>, <<0, 1, 1>>, <<1, 1, 2>> >>) }

\* the shapes of the input grids
Shapes == {s \in (1..MaxDim) \X (1..MaxDim) : s[1] * s[2] <= MaxCells}

\* the 3 x 3 grids of zeros and ones
BinaryGrids == [1..3 -> [1..3 -> {Number(0, 1), Number(1, 1)}]]

\* the input grids: every grid of a bounded shape over CellValues, the 3 x 3
\* grids of zeros and ones, and the program's examples
Grids ==
    UNION {[1..s[1] -> [1..s[2] -> CellValues]] : s \in Shapes}
        \cup BinaryGrids \cup EXAMPLE_MATRICES

NoCall == [m |-> Undefined, pivots |-> <<>>,
           operations |-> [null |-> TRUE, array |-> <<>>],
           trackOperations |-> FALSE, currentRow |-> 0, col |-> 0, row |-> 0,
           pc |-> "idle"]

NoResults == [rank |-> -1]

\* no clone scenario and no Fraction scenario is running
NoClone ==
    /\ copy = Undefined
    /\ atClone = <<>>
    /\ touched = {}
    /\ nOps = 0

NoFraction ==
    /\ value = [numerator |-> 0, denominator |-> 1]
    /\ lastOp = [name |-> "none"]

\* computeMatrix is not running and no cell is being converted
NoReturn == [success |-> FALSE, error |-> "none"]
NoLoop == [pc |-> "idle"]

NoEntry ==
    /\ input = <<>>
    /\ ret = NoReturn

NoCell ==
    /\ cell = String(<<>>)
    /\ loop = NoLoop

\* no component is mounted and no timer function was made
Unmounted == [mounted |-> FALSE]
NoTimers == [pending |-> {}]

NoUI ==
    /\ view = Unmounted
    /\ form = Unmounted
    /\ scene = Unmounted
    /\ debounced = NoTimers
    /\ throttled = NoTimers

Init ==
    /\ NoClone
    /\ NoFraction
    /\ NoEntry
    /\ NoCell
    /\ NoUI
    /\ heap = <<>>
    /\ matrixData \in Grids
    /\ trackOperations \in BOOLEAN
    /\ matrix = Undefined
    /\ call = NoCall
    /\ pc = "start"
    /\ columnSpace = <<>>
    /\ rowSpace = <<>>
    /\ nullSpace = <<>>
    /\ leftNullSpace = <<>>
    /\ results = NoResults

spaceVars == <<columnSpace, rowSpace, nullSpace, leftNullSpace, results>>
inputVars == <<matrixData, trackOperations>>

\* lines 134-155: validate, build the Matrix, enter computeRREF
Begin ==
    /\ pc = "start"
    /\ IF ValidationError(matrixData) # ""
       THEN /\ pc' = "threw"
            /\ UNCHANGED <<heap, matrix, call>>
       ELSE LET c == NewMatrix(heap, matrixData)
                e == EnterRREF(c.heap, c.matrix, trackOperations)
            IN  /\ matrix' = c.matrix
                /\ heap' = e.heap
                /\ call' = e.call
                /\ pc' = "rref"
    /\ UNCHANGED <<inputVars, spaceVars, cloneVars, fractionVars, entryVars, cellVars, uiVars>>

\* the call of line 155 takes the step `step`
Take(step) ==
    /\ heap' = step.heap
    /\ call' = step.call
    /\ pc' = IF step.call.pc = "threw" THEN "threw" ELSE pc
    /\ UNCHANGED <<inputVars, matrix, spaceVars, cloneVars, fractionVars, entryVars, cellVars, uiVars>>

SkipColumn ==
    /\ pc = "rref" /\ call.pc = "pivot"
    /\ LoopCond(call) /\ ColumnIsZero(heap, call)
    /\ Take(SkipStep(heap, call))

Swap ==
    /\ pc = "rref" /\ call.pc = "pivot"
    /\ LoopCond(call) /\ ~ColumnIsZero(heap, call)
    /\ Take(SwapStep(heap, call))

Scale ==
    /\ pc = "rref" /\ call.pc = "scale"
    /\ Take(ScaleStep(heap, call))

Eliminate ==
    /\ pc = "rref" /\ call.pc = "elim"
    /\ ElimRows(heap, call) # {}
    /\ Take(EliminateStep(heap, call))

Advance ==
    /\ pc = "rref" /\ call.pc = "elim"
    /\ ElimRows(heap, call) = {}
    /\ Take(AdvanceStep(heap, call))

Return ==
    /\ pc = "rref" /\ call.pc = "pivot"
    /\ ~LoopCond(call)
    /\ Take(ReturnStep(heap, call))

\* the heap and the basis that computeColumnSpace returned
StoreColumnSpace(r) == heap' = r.heap /\ columnSpace' = r.basis

\* the heap and the basis that computeRowSpace returned
StoreRowSpace(r) == heap' = r.heap /\ rowSpace' = r.basis

\* the heap and the basis that computeNullSpace returned
StoreNullSpace(r) == heap' = r.heap /\ nullSpace' = r.basis

\* the heap and the basis that computeLeftNullSpace returned
StoreLeftNullSpace(r) == heap' = r.heap /\ leftNullSpace' = r.basis

\* line 159
ColumnSpace ==
    /\ pc = "rref" /\ call.pc = "done"
    /\ StoreColumnSpace(computeColumnSpace(heap, matrix))
    /\ pc' = "rowSpace"
    /\ UNCHANGED <<inputVars, matrix, call, rowSpace, nullSpace, leftNullSpace, results,
                   cloneVars, fractionVars, entryVars, cellVars, uiVars>>

\* line 160
RowSpace ==
    /\ pc = "rowSpace"
    /\ StoreRowSpace(computeRowSpace(heap, matrix))
    /\ pc' = "nullSpace"
    /\ UNCHANGED <<inputVars, matrix, call, columnSpace, nullSpace, leftNullSpace, results,
                   cloneVars, fractionVars, entryVars, cellVars, uiVars>>

\* line 161
NullSpace ==
    /\ pc = "nullSpace"
    /\ StoreNullSpace(computeNullSpace(heap, matrix))
    /\ pc' = "leftNullSpace"
    /\ UNCHANGED <<inputVars, matrix, call, columnSpace, rowSpace, leftNullSpace, results,
                   cloneVars, fractionVars, entryVars, cellVars, uiVars>>

\* line 162
LeftNullSpace ==
    /\ pc = "leftNullSpace"
    /\ StoreLeftNullSpace(computeLeftNullSpace(heap, matrix))
    /\ pc' = "report"
    /\ UNCHANGED <<inputVars, matrix, call, columnSpace, rowSpace, nullSpace, results,
                   cloneVars, fractionVars, entryVars, cellVars, uiVars>>

\* lines 164-224
Finish ==
    /\ pc = "report"
    /\ results' = Report(heap, matrix, call.m, call.pivots, call.operations,
                         trackOperations, columnSpace, rowSpace, nullSpace,
                         leftNullSpace)
    /\ pc' = "done"
    /\ UNCHANGED <<inputVars, heap, matrix, call, columnSpace, rowSpace, nullSpace,
                   leftNullSpace, cloneVars, fractionVars, entryVars, cellVars, uiVars>>

Next ==
    \/ Begin
    \/ SkipColumn
    \/ Swap
    \/ Scale
    \/ Eliminate
    \/ Advance
    \/ Return
    \/ ColumnSpace
    \/ RowSpace
    \/ NullSpace
    \/ LeftNullSpace
    \/ Finish

Spec == Init /\ [][Next]_vars

(***************************************************************************)
(* Matrix.clone and the four mutating methods, called on a Matrix and on   *)
(* its clone.                                                              *)
(***************************************************************************)
\* no computation request is running
NoRequest ==
    /\ trackOperations = FALSE
    /\ call = NoCall
    /\ pc = "idle"
    /\ columnSpace = <<>>
    /\ rowSpace = <<>>
    /\ nullSpace = <<>>
    /\ leftNullSpace = <<>>
    /\ results = NoResults

\* the grids the cloned Matrix is built from: the examples of at most 3 columns
CloneGrids == {g \in EXAMPLE_MATRICES : Len(g[1]) <= 3}

\* the value Matrix.set is called with (a number), the scalar of multiplyRow
\* (a number) and the scalar of addRowMultiple (a Fraction)
SetValue == Number(7, 1)
RowScalar == Number(2, 1)
AddScalar == [numerator |-> -1, denominator |-> 2]

Targets == {"original", "clone"}

\* the Matrix object a method is called on
Obj(t) == IF t = "original" THEN matrix ELSE copy

InitClone ==
    /\ NoRequest
    /\ NoClone
    /\ NoEntry
    /\ NoCell
    /\ NoUI
    /\ matrixData \in CloneGrids
    /\ heap = NewMatrix(<<>>, matrixData).heap
    /\ matrix = NewMatrix(<<>>, matrixData).matrix
    /\ value = [numerator |-> 0, denominator |-> 1]
    /\ lastOp = [name |-> "new Matrix"]

\* copy = matrix.clone()
CloneMatrix ==
    /\ copy = Undefined
    /\ LET c == clone(heap, matrix)
       IN  /\ heap' = c.heap
           /\ copy' = c.matrix
           /\ atClone' = [original |-> Values(c.heap, matrix),
                          copy     |-> Values(c.heap, c.matrix)]
    /\ lastOp' = [name |-> "clone"]
    /\ UNCHANGED <<matrix, touched, nOps, value, requestVars, entryVars, cellVars, uiVars>>

\* a method was called on the object t
Called(t, name) ==
    /\ touched' = touched \cup {t}
    /\ nOps' = nOps + 1
    /\ lastOp' = [name |-> name, on |-> t]
    /\ UNCHANGED <<atClone, value, requestVars, entryVars, cellVars, uiVars>>

\* a method call may follow
MayCall == copy # Undefined /\ nOps < MaxOps

SetCell ==
    /\ MayCall
    /\ \E t \in Targets :
         \E i \in 0..(Obj(t).rows - 1), j \in 0..(Obj(t).cols - 1) :
            /\ heap' = set(heap, Obj(t), i, j, SetValue)
            /\ Called(t, "set")
    /\ UNCHANGED <<matrix, copy>>

SwapRows ==
    /\ MayCall
    /\ \E i \in 0..(matrix.rows - 1), j \in 0..(matrix.rows - 1) :
          \/ /\ matrix' = swapRows(matrix, i, j)
             /\ Called("original", "swapRows")
             /\ UNCHANGED copy
          \/ /\ copy' = swapRows(copy, i, j)
             /\ Called("clone", "swapRows")
             /\ UNCHANGED matrix
    /\ UNCHANGED heap

MultiplyRow ==
    /\ MayCall
    /\ \E t \in Targets :
         \E i \in 0..(Obj(t).rows - 1) :
            /\ heap' = multiplyRow(heap, Obj(t), i, RowScalar)
            /\ Called(t, "multiplyRow")
    /\ UNCHANGED <<matrix, copy>>

AddRowMultiple ==
    /\ MayCall
    /\ \E t \in Targets :
         \E i \in 0..(Obj(t).rows - 1), j \in 0..(Obj(t).rows - 1) :
            /\ heap' = addRowMultiple(heap, Obj(t), i, j, AddScalar)
            /\ Called(t, "addRowMultiple")
    /\ UNCHANGED <<matrix, copy>>

NextClone ==
    \/ CloneMatrix
    \/ SetCell
    \/ SwapRows
    \/ MultiplyRow
    \/ AddRowMultiple

SpecClone == InitClone /\ [][NextClone]_vars

(***************************************************************************)
(* Fraction: the constructor and the arithmetic methods, applied to the    *)
(* Fraction the previous operation gave.                                   *)
(***************************************************************************)
\* the integers handed to the constructor
Nums == -MaxNum..MaxNum

\* the Fractions handed to a method as `other`
Operands == {Fraction(n, d) : n \in Nums, d \in 1..MaxNum}

\* the Fractions a method is called on: the growth of the terms is capped
Small(f) == Abs(f.numerator) <= MaxNum * MaxNum /\ f.denominator <= MaxNum * MaxNum

\* a method can be called on the value at hand
IsReceiver == ~IsThrown(value) /\ Small(value)

InitFraction ==
    /\ NoRequest
    /\ NoClone
    /\ NoEntry
    /\ NoCell
    /\ NoUI
    /\ matrixData = <<>>
    /\ heap = <<>>
    /\ matrix = Undefined
    /\ \E n \in Nums, d \in Nums \ {0} :
          /\ value = Fraction(n, d)
          /\ lastOp = [name |-> "new", args |-> <<n, d>>]

fractionIdle == <<heap, matrix, requestVars, cloneVars, entryVars, cellVars, uiVars>>

New ==
    /\ \E n \in Nums, d \in Nums :
          /\ value' = Fraction(n, d)
          /\ lastOp' = [name |-> "new", args |-> <<n, d>>]
    /\ UNCHANGED fractionIdle

Add ==
    /\ IsReceiver
    /\ \E other \in Operands :
          /\ value' = add(value, other)
          /\ lastOp' = [name |-> "add", args |-> <<value, other>>]
    /\ UNCHANGED fractionIdle

Subtract ==
    /\ IsReceiver
    /\ \E other \in Operands :
          /\ value' = subtract(value, other)
          /\ lastOp' = [name |-> "subtract", args |-> <<value, other>>]
    /\ UNCHANGED fractionIdle

Multiply ==
    /\ IsReceiver
    /\ \E other \in Operands :
          /\ value' = multiply(value, other)
          /\ lastOp' = [name |-> "multiply", args |-> <<value, other>>]
    /\ UNCHANGED fractionIdle

Divide ==
    /\ IsReceiver
    /\ \E other \in Operands :
          /\ value' = divide(value, other)
          /\ lastOp' = [name |-> "divide", args |-> <<value, other>>]
    /\ UNCHANGED fractionIdle

Negate ==
    /\ IsReceiver
    /\ value' = negate(value)
    /\ lastOp' = [name |-> "negate", args |-> <<value>>]
    /\ UNCHANGED fractionIdle

NextFraction ==
    \/ New
    \/ Add
    \/ Subtract
    \/ Multiply
    \/ Divide
    \/ Negate

SpecFraction == InitFraction /\ [][NextFraction]_vars

(***************************************************************************)
(* computeMatrix of mathService.js: parse the cells, validate the grid,    *)
(* run computeAllSpaces, and turn a thrown Error into a failure value.     *)
(***************************************************************************)
\* the cells of the grids computeMatrix is called with: numbers, texts that
\* parse, texts that do not, and null
RawCells ==
    { Number(0, 1), Number(2, 1),
      String(<<"1">>), String(<<"1", "/", "2">>),
      String(<<"1", "/", "0">>), String(<<"x">>), String(<<"1", "x">>),
      Null }

\* a row of n cells c
Row(n, c) == [j \in 1..n |-> c]

\* grids that are empty, ragged or too large
MisshapenGrids ==
    { <<>>,
      << <<>> >>,
      << <<>>, <<>> >>,
      << Row(2, Number(2, 1)), Row(1, Number(2, 1)) >>,
      << Row(1, String(<<"1">>)), Row(2, String(<<"1">>)) >>,
      [i \in 1..(MaxDim + 1) |-> Row(1, Number(2, 1))],
      << Row(MaxDim + 1, Number(2, 1)) >>,
      [i \in 1..(MaxDim + 1) |-> Row(MaxDim + 1, String(<<"1">>))] }

\* the grids computeMatrix is called with
RawGrids ==
    [1..2 -> [1..2 -> RawCells]] \cup [1..1 -> [1..3 -> RawCells]] \cup MisshapenGrids

InitCompute ==
    /\ NoClone
    /\ NoFraction
    /\ NoCell
    /\ NoUI
    /\ input \in RawGrids
    /\ ret = NoReturn
    /\ trackOperations \in BOOLEAN
    /\ heap = <<>>
    /\ matrixData = <<>>
    /\ matrix = Undefined
    /\ call = NoCall
    /\ pc = "parse"
    /\ columnSpace = <<>>
    /\ rowSpace = <<>>
    /\ nullSpace = <<>>
    /\ leftNullSpace = <<>>
    /\ results = NoResults

\* a catch block that lets the Error go on to the caller
catchRethrow(message) == Thrown(message)

\* lines 135-140: catch (error) { return { success: false, error: error.message } }
catch(message) == [success |-> FALSE, error |-> message]

computeIdle == <<heap, matrix, call, trackOperations, spaceVars, cloneVars, fractionVars, cellVars, uiVars>>

\* line 123, and the catch of lines 135-140 when it throws
Parse ==
    /\ pc = "parse"
    /\ IF IsThrown(parseMatrixInput(input))
       THEN /\ ret' = catch(parseMatrixInput(input).error)
            /\ pc' = "returned"
            /\ UNCHANGED matrixData
       ELSE /\ matrixData' = parseMatrixInput(input).parsed
            /\ pc' = "validate"
            /\ UNCHANGED ret
    /\ UNCHANGED <<input, computeIdle>>

\* line 126, and the catch when it throws; line 129 calls computeAllSpaces
Validate ==
    /\ pc = "validate"
    /\ IF validateMatrix(matrixData) # ""
       THEN /\ ret' = catch(validateMatrix(matrixData))
            /\ pc' = "returned"
       ELSE /\ pc' = "start"
            /\ UNCHANGED ret
    /\ UNCHANGED <<input, matrixData, computeIdle>>

\* lines 131-134
ReturnData ==
    /\ pc = "done"
    /\ ret' = [success |-> TRUE, data |-> results]
    /\ pc' = "returned"
    /\ UNCHANGED <<input, matrixData, computeIdle>>

\* lines 135-140: an Error thrown by computeAllSpaces is caught and returned
Catch ==
    /\ pc = "threw"
    /\ ret' = catch("Maximum call stack size exceeded")
    /\ pc' = "returned"
    /\ UNCHANGED <<input, matrixData, computeIdle>>

\* computeMatrix on the grids of RawGrids, none of which makes
\* computeAllSpaces throw
NextCompute ==
    \/ Parse
    \/ Validate
    \/ Next
    \/ ReturnData

SpecCompute == InitCompute /\ [][NextCompute]_vars

(***************************************************************************)
(* computeMatrix on grids that hold large numbers.                         *)
(***************************************************************************)
\* a finite number whose square is beyond the range of a number (as 1e200 is
\* for a double)
Huge == 200

\* the 2 x 2 grids over 0, 1 and Huge
RangeGrids == [1..2 -> [1..2 -> {Number(0, 1), Number(1, 1), Number(Huge, 1)}]]

InitRange ==
    /\ NoClone
    /\ NoFraction
    /\ NoCell
    /\ NoUI
    /\ input \in RangeGrids
    /\ ret = NoReturn
    /\ trackOperations \in BOOLEAN
    /\ heap = <<>>
    /\ matrixData = <<>>
    /\ matrix = Undefined
    /\ call = NoCall
    /\ pc = "parse"
    /\ columnSpace = <<>>
    /\ rowSpace = <<>>
    /\ nullSpace = <<>>
    /\ leftNullSpace = <<>>
    /\ results = NoResults

NextRange ==
    \/ Parse
    \/ Validate
    \/ Next
    \/ ReturnData
    \/ Catch

SpecRange == InitRange /\ [][NextRange]_vars

(***************************************************************************)
(* computeMatrix on any argument.  A value that need not be an array is a  *)
(* record: null, a number, a string, or an array with its elements.        *)
(***************************************************************************)
Array(elements) == [elements |-> elements]
IsArray(v) == "elements" \in DOMAIN v
IsNull(v) == "null" \in DOMAIN v

\* the TypeError of v.map(...) for a v that is no array
MapError(v, name) ==
    IF IsNull(v) THEN <<"Cannot read properties of null (reading 'map')">>
    ELSE <<name, ".map is not a function">>

\* the rows that are arrays as a grid; a row that is none stands as empty
RowsAsGrid(rows) ==
    [i \in 1..Len(rows) |-> IF IsArray(rows[i]) THEN rows[i].elements ELSE <<>>]

\* the outer map of parseMatrixInput over rows of which `bad` are no arrays
\* and the cells `failing` do not parse: the first of them in the order of
\* the map throws
ParseRows(rows, bad, failing) ==
    IF failing # {} /\ \A r \in bad : FirstOf(failing)[1] < r
    THEN ParseError(RowsAsGrid(rows), FirstOf(failing))
    ELSE IF bad # {}
    THEN Thrown(<<"Failed to parse matrix: ", MapError(rows[Min(bad)], "row")>>)
    ELSE ParsedGrid(RowsAsGrid(rows))

\* parseMatrixInput(matrixData) for any value: lines 65-76
parseMatrixInputOf(v) ==
    IF ~IsArray(v)
    THEN Thrown(<<"Failed to parse matrix: ", MapError(v, "matrixData")>>)
    ELSE ParseRows(v.elements,
                   {i \in 1..Len(v.elements) : ~IsArray(v.elements[i])},
                   {p \in CellsInOrder(RowsAsGrid(v.elements)) :
                        CellThrows(RowsAsGrid(v.elements), p)})

\* the cells and the rows of the arguments
ArgumentCells ==
    { Number(0, 1), Number(1, 1), Number(Huge, 1),
      String(<<"1", "/", "2">>), String(<<"x">>), Null }

ArgumentRows ==
    {Array(c) : c \in [1..2 -> ArgumentCells]}
        \cup { Null, Number(1, 1), String(<<"1">>), Array(<<>>),
               Array(Row(1, Number(1, 1))), Array(Row(MaxDim + 1, Number(1, 1))) }

\* null, a number, a string, the empty array, two rows of any kind, and an
\* array of too many rows
Arguments ==
    { Null, Number(1, 1), String(<<"1">>), Array(<<>>),
      Array([i \in 1..(MaxDim + 1) |-> Array(Row(1, Number(1, 1)))]) }
        \cup {Array(rows) : rows \in [1..2 -> ArgumentRows]}

InitArgument ==
    /\ NoClone
    /\ NoFraction
    /\ NoCell
    /\ NoUI
    /\ input \in Arguments
    /\ ret = NoReturn
    /\ trackOperations \in BOOLEAN
    /\ heap = <<>>
    /\ matrixData = <<>>
    /\ matrix = Undefined
    /\ call = NoCall
    /\ pc = "parse"
    /\ columnSpace = <<>>
    /\ rowSpace = <<>>
    /\ nullSpace = <<>>
    /\ leftNullSpace = <<>>
    /\ results = NoResults

\* line 123 for any argument, and the catch of lines 135-140 when it throws
ParseArgument ==
    /\ pc = "parse"
    /\ IF IsThrown(parseMatrixInputOf(input))
       THEN /\ ret' = catch(parseMatrixInputOf(input).error)
            /\ pc' = "returned"
            /\ UNCHANGED matrixData
       ELSE /\ matrixData' = parseMatrixInputOf(input).parsed
            /\ pc' = "validate"
            /\ UNCHANGED ret
    /\ UNCHANGED <<input, computeIdle>>

NextArgument ==
    \/ ParseArgument
    \/ Validate
    \/ Next
    \/ ReturnData
    \/ Catch

SpecArgument == InitArgument /\ [][NextArgument]_vars

\* the grids of the termination check: the shapes 2 x 2, 2 x 3 and 3 x 2 over
\* {0, 1, 2} and {0, 1}
TerminationGrids ==
    [1..2 -> [1..2 -> {Number(0, 1), Number(1, 1), Number(2, 1)}]]
        \cup [1..2 -> [1..3 -> {Number(0, 1), Number(1, 1)}]]
        \cup [1..3 -> [1..2 -> {Number(0, 1), Number(1, 1)}]]

InitFair ==
    /\ NoClone
    /\ NoFraction
    /\ NoEntry
    /\ NoCell
    /\ NoUI
    /\ heap = <<>>
    /\ matrixData \in TerminationGrids
    /\ trackOperations \in BOOLEAN
    /\ matrix = Undefined
    /\ call = NoCall
    /\ pc = "start"
    /\ columnSpace = <<>>
    /\ rowSpace = <<>>
    /\ nullSpace = <<>>
    /\ leftNullSpace = <<>>
    /\ results = NoResults

\* a step of the computeRREF call of line 155
RREFStep == SkipColumn \/ Swap \/ Scale \/ Eliminate \/ Advance \/ Return

\* the call of computeRREF has a step to take
Running == pc = "rref" /\ call.pc \in {"pivot", "scale", "elim"}

\* a call of computeRREF that has started runs on: the request under weak
\* fairness of the steps of the call.  This is WF_vars(RREFStep) with
\* ENABLED <<RREFStep>>_vars written out as Running: the call is not running
\* infinitely often, or it takes a step infinitely often.
FairSpec ==
    InitFair /\ [][Next]_vars /\ ([]<>(~Running) \/ []<><<RREFStep>>_vars)

(***************************************************************************)
(* computeAllSpaces called directly, with grids of any shape.              *)
(***************************************************************************)
\* grids whose row or column count is outside 1..5
OutOfRangeGrids ==
    { <<>>,
      << <<>> >>,
      << <<>>, <<>> >>,
      [i \in 1..(MaxDim + 1) |-> Row(1, Number(1, 1))],
      << Row(MaxDim + 1, Number(1, 1)) >>,
      [i \in 1..(MaxDim + 1) |-> Row(MaxDim + 1, Number(1, 1))] }

\* the grids computeAllSpaces is called with
DirectGrids ==
    [1..2 -> [1..2 -> {Number(0, 1), Number(1, 1), Number(2, 1)}]] \cup OutOfRangeGrids

InitDirect ==
    /\ NoClone
    /\ NoFraction
    /\ NoEntry
    /\ NoCell
    /\ NoUI
    /\ heap = <<>>
    /\ matrixData \in DirectGrids
    /\ trackOperations \in BOOLEAN
    /\ matrix = Undefined
    /\ call = NoCall
    /\ pc = "start"
    /\ columnSpace = <<>>
    /\ rowSpace = <<>>
    /\ nullSpace = <<>>
    /\ leftNullSpace = <<>>
    /\ results = NoResults

SpecDirect == InitDirect /\ [][Next]_vars

(***************************************************************************)
(* new Matrix(data), called with grids whose rows may differ in length.    *)
(***************************************************************************)
\* the rows of one or two cells over {0, 1, 2}
ConstructorRows ==
    UNION {[1..n -> {Number(0, 1), Number(1, 1), Number(2, 1)}] : n \in 1..2}

\* the grids of one or two such rows
ConstructorGrids == UNION {[1..m -> ConstructorRows] : m \in 1..2}

InitMatrix ==
    /\ NoClone
    /\ NoFraction
    /\ NoEntry
    /\ NoCell
    /\ NoUI
    /\ heap = <<>>
    /\ matrixData \in ConstructorGrids
    /\ trackOperations = FALSE
    /\ matrix = Undefined
    /\ call = NoCall
    /\ pc = "new"
    /\ columnSpace = <<>>
    /\ rowSpace = <<>>
    /\ nullSpace = <<>>
    /\ leftNullSpace = <<>>
    /\ results = NoResults

\* lines 12-19: the constructor converts every cell and takes the length of
\* the first row as the number of columns
Construct ==
    /\ pc = "new"
    /\ LET c == NewMatrix(heap, matrixData)
       IN  /\ heap' = c.heap
           /\ matrix' = c.matrix
    /\ pc' = "built"
    /\ UNCHANGED <<inputVars, call, spaceVars, cloneVars, fractionVars, entryVars, cellVars, uiVars>>

NextMatrix == Construct

SpecMatrix == InitMatrix /\ [][NextMatrix]_vars

(***************************************************************************)
(* One cell on its way to a Fraction: parseMatrixCell and then              *)
(* Fraction.from of the number (the Matrix constructor), or                *)
(* Fraction.fromString of the text.  The loop of Fraction.fromDecimal      *)
(* takes one step per iteration.                                           *)
(***************************************************************************)
\* numerators of the cell texts run over -MaxP..MaxP, small denominators over
\* 0..MaxQ
MaxP == 3
MaxQ == 6

\* the text "p/q" and the text "n"
FractionText(p, q) == String(numberToString(p) \o <<"/">> \o numberToString(q))
IntegerText(n) == String(numberToString(n))

\* a denominator beyond the search of fromDecimal
LargeDenominator == MaxDenominator + 1

FractionTexts ==
    {FractionText(p, q) : p \in -MaxP..MaxP, q \in 0..MaxQ}
        \cup {FractionText(1, LargeDenominator), FractionText(-2, LargeDenominator)}

IntegerTexts == {IntegerText(n) : n \in -MaxP..MaxP} \cup {IntegerText(12)}

DecimalTexts ==
    { String(<<"0", ".", "5">>), String(<<"-", "0", ".", "7", "5">>),
      String(<<"1", ".", "2", "5">>), String(<<"0", ".", "1">>) }

\* texts that are no integer, decimal or fraction, and texts with spaces
OtherTexts ==
    { String(<<>>), String(<<" ">>), String(<<"x">>), String(<<"a", "b", "c">>),
      String(<<"1", "2", "a", "b", "c">>), String(<<"1", "x">>),
      String(<<"1", "/", "2", "/", "3">>), String(<<"1", "/", "2", "x">>),
      String(<<"1", "/">>), String(<<"/", "2">>), String(<<"1", ".", "5", ".", "2">>),
      String(<<" ", "7", " ">>), String(<<"1", " ", "/", " ", "2">>) }

CellTexts == FractionTexts \cup IntegerTexts \cup DecimalTexts \cup OtherTexts

InitCell ==
    /\ NoClone
    /\ NoUI
    /\ NoEntry
    /\ heap = <<>>
    /\ matrixData = <<>>
    /\ matrix = Undefined
    /\ trackOperations = FALSE
    /\ call = NoCall
    /\ columnSpace = <<>>
    /\ rowSpace = <<>>
    /\ nullSpace = <<>>
    /\ leftNullSpace = <<>>
    /\ results = NoResults
    /\ cell \in CellTexts
    /\ pc \in {"cell", "string"}
    /\ lastOp = [name |-> IF pc = "cell" THEN "parseMatrixCell" ELSE "fromString"]
    /\ value = [numerator |-> 0, denominator |-> 1]
    /\ loop = NoLoop

cellIdle ==
    <<heap, matrixData, matrix, trackOperations, call, spaceVars, cloneVars, entryVars, cell, lastOp, uiVars>>

\* parseMatrixCell(cell): the number goes on to the Matrix constructor
ParseCell ==
    /\ pc = "cell"
    /\ IF IsThrown(parseMatrixCell(cell))
       THEN /\ pc' = "threw"
            /\ loop' = [pc |-> "threw", error |-> parseMatrixCell(cell).error]
       ELSE /\ pc' = "number"
            /\ loop' = [pc |-> "number", decimal |-> parseMatrixCell(cell)]
    /\ UNCHANGED <<value, cellIdle>>

\* Fraction.fromString(cell), lines 132-142: a text with a slash
FromStringQuotient ==
    /\ pc = "string"
    /\ includes(trim(cell.chars), "/")
    /\ IF IsThrown(fromString(cell))
       THEN /\ pc' = "threw"
            /\ loop' = [pc |-> "threw", error |-> fromString(cell).error]
            /\ UNCHANGED value
       ELSE /\ pc' = "stored"
            /\ loop' = [pc |-> "returned"]
            /\ value' = fromString(cell)
    /\ UNCHANGED cellIdle

\* Fraction.fromString(cell), lines 144-148: a text without a slash
FromStringNumber ==
    /\ pc = "string"
    /\ ~includes(trim(cell.chars), "/")
    /\ IF isNaN(parseFloat(trim(cell.chars)))
       THEN /\ pc' = "threw"
            /\ loop' = [pc |-> "threw", error |-> "Invalid number"]
       ELSE /\ pc' = "number"
            /\ loop' = [pc |-> "number", decimal |-> parseFloat(trim(cell.chars))]
    /\ UNCHANGED <<value, cellIdle>>

\* Fraction.fromDecimal(decimal), lines 155-164: an integer is returned at
\* once, any other number enters the loop
EnterFromDecimal ==
    /\ pc = "number"
    /\ IF loop.decimal.num % loop.decimal.den = 0
       THEN /\ value' = Fraction(loop.decimal.num \div loop.decimal.den, 1)
            /\ pc' = "stored"
            /\ loop' = [pc |-> "returned"]
       ELSE /\ loop' = [pc          |-> "loop",
                        sign        |-> IF loop.decimal.num < 0 THEN -1 ELSE 1,
                        p           |-> Abs(loop.decimal.num),
                        q           |-> loop.decimal.den,
                        denominator |-> 1,
                        best        |-> <<1, 1>>]
            /\ pc' = "search"
            /\ UNCHANGED value
    /\ UNCHANGED cellIdle

\* error < 1e-10 for the candidate best of the decimal p / q
Converged(p, q, best) ==
    Abs(p * best[2] - best[1] * q) * EpsRoot <= (q * best[2] - 1) \div EpsRoot

\* the candidate after the iteration of the loop at l.denominator
BestAfter(l) == fromDecimalSearch(l.p, l.q, l.denominator, l.best, l.denominator)

\* lines 166-176: one iteration; a new best with error < 1e-10 breaks
SearchStep ==
    /\ pc = "search" /\ loop.pc = "loop"
    /\ loop.denominator <= MaxDenominator
    /\ loop' = IF BestAfter(loop) # loop.best /\ Converged(loop.p, loop.q, BestAfter(loop))
               THEN [loop EXCEPT !.best = BestAfter(loop), !.pc = "break"]
               ELSE [loop EXCEPT !.best = BestAfter(loop), !.denominator = @ + 1]
    /\ UNCHANGED <<pc, value, cellIdle>>

\* line 179: the loop has ended
SearchReturn ==
    /\ pc = "search"
    /\ loop.pc = "break" \/ loop.denominator > MaxDenominator
    /\ value' = Fraction(loop.sign * loop.best[1], loop.best[2])
    /\ pc' = "stored"
    /\ loop' = [pc |-> "returned"]
    /\ UNCHANGED cellIdle

NextCell ==
    \/ ParseCell
    \/ FromStringQuotient
    \/ FromStringNumber
    \/ EnterFromDecimal
    \/ SearchStep
    \/ SearchReturn

SpecCell == InitCell /\ [][NextCell]_vars

(***************************************************************************)
(* The components below keep no engine state: every variable of the        *)
(* computations above stays as it is.                                      *)
(***************************************************************************)
engineVars == <<heap, matrix, requestVars, cloneVars, fractionVars, entryVars, cellVars>>

NoEngine ==
    /\ NoClone
    /\ NoFraction
    /\ NoEntry
    /\ NoCell
    /\ heap = <<>>
    /\ matrixData = <<>>
    /\ trackOperations = FALSE
    /\ matrix = Undefined
    /\ call = NoCall
    /\ pc = "idle"
    /\ columnSpace = <<>>
    /\ rowSpace = <<>>
    /\ nullSpace = <<>>
    /\ leftNullSpace = <<>>
    /\ results = NoResults

(***************************************************************************)
(* RowOperationsDisplay: the prop `operations` and the state currentStep   *)
(* and isExpanded.  An operation is its type; a log is a list of them.     *)
(***************************************************************************)
\* longest operations list
MaxSteps == 3

OperationLists == UNION {[1..n -> {"swap", "scale", "add"}] : n \in 0..MaxSteps}

Max2(a, b) == IF a >= b THEN a ELSE b
Min2(a, b) == IF a <= b THEN a ELSE b

\* what one render shows: the empty notice (lines 14-20), the header alone,
\* or the current operation, whose type line 105 reads
render(v) ==
    IF Len(v.operations) = 0 THEN [shown |-> "empty"]
    ELSE IF ~v.isExpanded THEN [shown |-> "header"]
    ELSE IF v.currentStep + 1 \in DOMAIN v.operations
    THEN [shown |-> v.operations[v.currentStep + 1]]
    ELSE Thrown("Cannot read properties of undefined (reading 'type')")

\* a render that throws takes the component off the page
Rendered(v) ==
    IF IsThrown(render(v)) THEN [mounted |-> FALSE, error |-> render(v).error] ELSE v

\* the parent renders the component again with another operations prop; the
\* state of useState stays (lines 10-12)
withOperations(v, operations) == [v EXCEPT !.operations = operations]

InitSteps ==
    /\ NoEngine
    /\ form = Unmounted
    /\ scene = Unmounted
    /\ debounced = NoTimers
    /\ throttled = NoTimers
    /\ \E operations \in OperationLists :
          view = [mounted |-> TRUE, operations |-> operations,
                  currentStep |-> 0, isExpanded |-> FALSE]

stepsIdle == <<engineVars, form, scene, debounced, throttled>>

\* the controls of lines 81-168 are on the page
ControlsShown == view.mounted /\ view.isExpanded /\ Len(view.operations) > 0

\* line 75
Toggle ==
    /\ view.mounted /\ Len(view.operations) > 0
    /\ view' = Rendered([view EXCEPT !.isExpanded = ~@])
    /\ UNCHANGED stepsIdle

\* lines 84-90
Previous ==
    /\ ControlsShown
    /\ view.currentStep # 0
    /\ view' = Rendered([view EXCEPT !.currentStep = Max2(0, @ - 1)])
    /\ UNCHANGED stepsIdle

\* lines 94-100
NextStep ==
    /\ ControlsShown
    /\ view.currentStep # Len(view.operations) - 1
    /\ view' = Rendered([view EXCEPT !.currentStep =
                            Min2(Len(view.operations) - 1, @ + 1)])
    /\ UNCHANGED stepsIdle

\* lines 150-155
SelectStep ==
    /\ ControlsShown
    /\ \E idx \in 0..(Len(view.operations) - 1) :
          view' = Rendered([view EXCEPT !.currentStep = idx])
    /\ UNCHANGED stepsIdle

\* ResultsDisplay line 37 with the results of another computation
NewOperations ==
    /\ view.mounted
    /\ \E operations \in OperationLists :
          view' = Rendered(withOperations(view, operations))
    /\ UNCHANGED stepsIdle

NextSteps ==
    \/ Toggle
    \/ Previous
    \/ NextStep
    \/ SelectStep
    \/ NewOperations

SpecSteps == InitSteps /\ [][NextSteps]_vars

(***************************************************************************)
(* MatrixInput: the state rows, cols and matrix, a grid of cell texts.  A  *)
(* cell text is its sequence of characters.                                *)
(***************************************************************************)
\* most cell edits in one run
MaxEdits == 1

\* MATRIX_LIMITS.MIN_DIMENSION, the default of validateDimensions
MinDim == 1

\* validateDimensions without the clamp
validateDimensionsUnclamped(r, c, min, max) == [rows |-> r, cols |-> c]

\* validateDimensions(rows, cols, min, max)
validateDimensions(r, c, min, max) ==
    [rows |-> Max2(min, Min2(max, r)), cols |-> Max2(min, Min2(max, c))]

\* matrix[0]?.length || 0
FirstRowLength(m) == IF Len(m) > 0 THEN Len(m[1]) ELSE 0

\* resizeMatrix(matrix, newRows, newCols): a grid of '' with the cells of the
\* old grid copied up to minRows and minCols
resizeMatrix(m, newRows, newCols) ==
    [i \in 1..newRows |-> [j \in 1..newCols |->
        IF i <= Min2(Len(m), newRows) /\ j <= Min2(FirstRowLength(m), newCols)
        THEN (IF j <= Len(m[i]) THEN m[i][j] ELSE <<>>)
        ELSE <<>>]]

\* handleDimensionChange(newRows, newCols)
handleDimensionChange(f, newRows, newCols) ==
    LET validated == validateDimensions(newRows, newCols, MinDim, MaxDim)
    IN  [f EXCEPT !.rows = validated.rows,
                  !.cols = validated.cols,
                  !.matrix = resizeMatrix(f.matrix, validated.rows, validated.cols),
                  !.last = "resize"]

\* parseInt(e.target.value) || 1, for a field that holds the integer n
parseIntOr1(n) == IF n = 0 THEN 1 ELSE n

\* handleCellChange(i, j, value), 0-based
handleCellChange(f, i, j, text) ==
    [f EXCEPT !.matrix = [ri \in 1..Len(@) |-> [ci \in 1..Len(@[ri]) |->
                             IF ri = i + 1 /\ ci = j + 1 THEN text ELSE @[ri][ci]]],
              !.edits = @ + 1,
              !.last = "cell"]

\* String(v) of a number of one digit
DigitText(v) == <<(<<"0", "1", "2", "3", "4", "5", "6", "7", "8", "9">>)[v.num + 1]>>

\* loadExample(example), and the effect of lines 20-28 for initialMatrix
loadMatrix(f, loaded, name) ==
    [f EXCEPT !.rows = Len(loaded),
              !.cols = FirstRowLength(loaded),
              !.matrix = [i \in 1..Len(loaded) |-> [j \in 1..Len(loaded[i]) |->
                             DigitText(loaded[i][j])]],
              !.last = name]

\* clearMatrix
clearMatrix(f) ==
    [f EXCEPT !.matrix = [i \in 1..f.rows |-> [j \in 1..f.cols |-> <<>>]],
              !.last = "clear"]

\* fillZeros
fillZeros(f) ==
    [f EXCEPT !.matrix = [i \in 1..Len(@) |-> [j \in 1..Len(@[i]) |->
                             IF trim(@[i][j]) = <<>> THEN <<"0">> ELSE @[i][j]]],
              !.last = "fill"]

\* the sizes a dimension field is set to, and the texts typed into a cell
RequestedSizes == {-1, 0, 2, 3, MaxDim, MaxDim + 1}
TypedTexts == {<<" ">>, <<"7">>}

\* the saved matrices handed in as initialMatrix
InitialMatrices ==
    { Grid(<< <<7>> >>), [i \in 1..MaxDim |-> [j \in 1..MaxDim |-> Number(5, 1)]] }

\* lines 10-16: the grid of MATRIX_LIMITS.DEFAULT_ROWS x DEFAULT_COLS empty
\* cells
InitForm ==
    /\ NoEngine
    /\ view = Unmounted
    /\ scene = Unmounted
    /\ debounced = NoTimers
    /\ throttled = NoTimers
    /\ \E r \in {MinDim, MaxDim}, c \in {MinDim, MaxDim} :
          form = [mounted |-> TRUE, rows |-> r, cols |-> c,
                  matrix |-> [i \in 1..r |-> [j \in 1..c |-> <<>>]],
                  edits |-> 0, last |-> "mount"]

formIdle == <<engineVars, view, scene, debounced, throttled>>

\* line 137
RowsChange ==
    /\ form.mounted
    /\ \E n \in RequestedSizes :
          form' = handleDimensionChange(form, parseIntOr1(n), form.cols)
    /\ UNCHANGED formIdle

\* line 148
ColsChange ==
    /\ form.mounted
    /\ \E n \in RequestedSizes :
          form' = handleDimensionChange(form, form.rows, parseIntOr1(n))
    /\ UNCHANGED formIdle

\* line 185
CellChange ==
    /\ form.mounted
    /\ form.edits < MaxEdits
    /\ \E i \in 1..Len(form.matrix) : \E j \in 1..Len(form.matrix[i]) :
          \E text \in TypedTexts :
             form' = handleCellChange(form, i - 1, j - 1, text)
    /\ UNCHANGED formIdle

\* lines 157-162
LoadExample ==
    /\ form.mounted
    /\ \E example \in EXAMPLE_MATRICES : form' = loadMatrix(form, example, "example")
    /\ UNCHANGED formIdle

\* lines 20-28
LoadInitial ==
    /\ form.mounted
    /\ \E initialMatrix \in InitialMatrices :
          form' = loadMatrix(form, initialMatrix, "initial")
    /\ UNCHANGED formIdle

\* line 222
Clear ==
    /\ form.mounted
    /\ form' = clearMatrix(form)
    /\ UNCHANGED formIdle

\* line 229
FillZeros ==
    /\ form.mounted
    /\ form' = fillZeros(form)
    /\ UNCHANGED formIdle

NextForm ==
    \/ RowsChange
    \/ ColsChange
    \/ CellChange
    \/ LoadExample
    \/ LoadInitial
    \/ Clear
    \/ FillZeros

SpecForm == InitForm /\ [][NextForm]_vars

(***************************************************************************)
(* debounce(func, wait) and throttle(func, limit) of performanceUtils.js.  *)
(* Time is a counter; a timer set with delay d at time t is due at t + d   *)
(* and fires at some time not before it is due, as setTimeout promises.    *)
(***************************************************************************)
\* the last time at which a call is made, and the most calls of one run
MaxTime == 4
MaxCalls == 3

\* the delays and the arguments of the calls
Delays == 1..2
Arguments2 == {"a", "b"}

\* clearTimeout(id): the timer of that id, if it is pending, is dropped
clearTimeout(pending, id) == {t \in pending : t.id # id}

\* a debounced function that sets its timer without clearing the old one
executedFunctionNoClear(d, args) ==
    [d EXCEPT !.pending = @ \cup {[id |-> d.nextId, due |-> d.now + d.wait, args |-> args]},
              !.timeout = d.nextId,
              !.nextId = @ + 1,
              !.calls = Append(@, [at |-> d.now, args |-> args])]

\* lines 26-33: executedFunction(...args)
executedFunction(d, args) ==
    [d EXCEPT !.pending = clearTimeout(@, d.timeout)
                              \cup {[id |-> d.nextId, due |-> d.now + d.wait, args |-> args]},
              !.timeout = d.nextId,
              !.nextId = @ + 1,
              !.calls = Append(@, [at |-> d.now, args |-> args])]

\* lines 27-30: later() of the timer t, which has just fired
later(d, t) ==
    [d EXCEPT !.pending = clearTimeout(@ \ {t}, d.timeout),
              !.invoked = Append(@, [at |-> d.now, args |-> t.args, after |-> Len(d.calls)])]

\* lines 24-25: debounce(func, wait) returns the function, timeout undefined
InitDebounce ==
    /\ NoEngine
    /\ view = Unmounted
    /\ form = Unmounted
    /\ scene = Unmounted
    /\ throttled = NoTimers
    /\ \E wait \in Delays :
          debounced = [wait |-> wait, timeout |-> 0, pending |-> {}, nextId |-> 1,
                       now |-> 0, calls |-> <<>>, invoked |-> <<>>]

debounceIdle == <<engineVars, view, form, scene, throttled>>

\* a call of the debounced function
DebouncedCall ==
    /\ "wait" \in DOMAIN debounced
    /\ Len(debounced.calls) < MaxCalls
    /\ debounced.now <= MaxTime
    /\ \E args \in Arguments2 : debounced' = executedFunction(debounced, args)
    /\ UNCHANGED debounceIdle

\* a timer that is due fires
DebounceFire ==
    /\ \E t \in debounced.pending :
          /\ t.due <= debounced.now
          /\ debounced' = later(debounced, t)
    /\ UNCHANGED debounceIdle

\* time passes, whether or not a timer is due
DebounceTick ==
    /\ "wait" \in DOMAIN debounced
    /\ \/ debounced.now < MaxTime
       \/ \E t \in debounced.pending : t.due > debounced.now
    /\ debounced' = [debounced EXCEPT !.now = @ + 1]
    /\ UNCHANGED debounceIdle

NextDebounce ==
    \/ DebouncedCall
    \/ DebounceFire
    \/ DebounceTick

\* a timer that is due does fire, and time goes on
SpecDebounce ==
    /\ InitDebounce
    /\ [][NextDebounce]_vars
    /\ WF_vars(DebounceFire)
    /\ WF_vars(DebounceTick)

\* what func does when it is invoked: it returns, or it throws
Outcomes == {"returns", "throws"}

\* lines 41-47: the throttled function, called with args while func has the
\* given outcome.  Line 43 calls func before line 44 sets inThrottle and
\* line 45 starts the timer: when func throws, neither is reached.
throttledFunction(t, args, outcome) ==
    LET called == [t EXCEPT !.calls = Append(@, [at |-> t.now, args |-> args])]
        applied == [called EXCEPT !.invoked = Append(@, [at |-> t.now, args |-> args,
                                                        call |-> Len(called.calls)])]
    IN  IF t.inThrottle
        THEN called
        ELSE IF outcome = "throws"
             THEN applied
             ELSE [applied EXCEPT !.inThrottle = TRUE,
                                  !.pending = @ \cup {[id |-> t.nextId, due |-> t.now + t.limit]},
                                  !.nextId = @ + 1]

\* line 45: the callback of the timer t
resetThrottle(t, timer) ==
    [t EXCEPT !.inThrottle = FALSE, !.pending = @ \ {timer}]

\* lines 39-40: throttle(func, limit) returns the function, inThrottle undefined
InitThrottle ==
    /\ NoEngine
    /\ view = Unmounted
    /\ form = Unmounted
    /\ scene = Unmounted
    /\ debounced = NoTimers
    /\ \E limit \in Delays :
          throttled = [limit |-> limit, inThrottle |-> FALSE, pending |-> {}, nextId |-> 1,
                       now |-> 0, calls |-> <<>>, invoked |-> <<>>]

throttleIdle == <<engineVars, view, form, scene, debounced>>

\* a call of the throttled function
ThrottledCall ==
    /\ "limit" \in DOMAIN throttled
    /\ Len(throttled.calls) < MaxCalls
    /\ throttled.now <= MaxTime
    /\ \E args \in Arguments2, outcome \in Outcomes :
          throttled' = throttledFunction(throttled, args, outcome)
    /\ UNCHANGED throttleIdle

\* a timer that is due fires
ThrottleFire ==
    /\ \E timer \in throttled.pending :
          /\ timer.due <= throttled.now
          /\ throttled' = resetThrottle(throttled, timer)
    /\ UNCHANGED throttleIdle

\* time passes, whether or not a timer is due
ThrottleTick ==
    /\ "limit" \in DOMAIN throttled
    /\ \/ throttled.now < MaxTime
       \/ \E timer \in throttled.pending : timer.due > throttled.now
    /\ throttled' = [throttled EXCEPT !.now = @ + 1]
    /\ UNCHANGED throttleIdle

NextThrottle ==
    \/ ThrottledCall
    \/ ThrottleFire
    \/ ThrottleTick

\* a timer that is due does fire, and time goes on
SpecThrottle ==
    /\ InitThrottle
    /\ [][NextThrottle]_vars
    /\ WF_vars(ThrottleFire)
    /\ WF_vars(ThrottleTick)

(***************************************************************************)
(* The effect of Vector3DScene.jsx: every run of it builds a renderer and  *)
(* controls and starts an animation loop; its cleanup disposes them.       *)
(***************************************************************************)
\* the most runs of the effect and the most frames counted for one of them
MaxEffects == 3
MaxFrames == 3

\* lines 109-113: animate() of one run of the effect: it requests the next
\* frame, then updates the controls and renders; `stale` counts the frames
\* drawn with a disposed renderer
animate(e) ==
    [e EXCEPT !.requested = TRUE,
              !.frames = @ + 1,
              !.stale = @ + (IF e.disposed THEN 1 ELSE 0)]

\* lines 16-114: one run of the effect, up to the first call of animate()
runEffect == animate([disposed |-> FALSE, requested |-> FALSE, frames |-> 0, stale |-> 0])

\* lines 133-140: the cleanup of a run; the frame it has requested stays
\* requested
cleanup(e) == [e EXCEPT !.disposed = TRUE]

InitScene ==
    /\ NoEngine
    /\ view = Unmounted
    /\ form = Unmounted
    /\ debounced = NoTimers
    /\ throttled = NoTimers
    /\ scene = [mounted |-> FALSE, effects |-> <<>>]

sceneIdle == <<engineVars, view, form, debounced, throttled>>

\* the run of the effect that is current while the scene is mounted
Current == Len(scene.effects)

\* the component mounts: the effect runs
SceneMount ==
    /\ "effects" \in DOMAIN scene
    /\ ~scene.mounted
    /\ Len(scene.effects) < MaxEffects
    /\ scene' = [mounted |-> TRUE, effects |-> Append(scene.effects, runEffect)]
    /\ UNCHANGED sceneIdle

\* line 141: subspaces changes: the cleanup of the last run, then a new run
SubspacesChange ==
    /\ scene.mounted
    /\ Len(scene.effects) < MaxEffects
    /\ scene' = [scene EXCEPT !.effects =
                     Append([@ EXCEPT ![Current] = cleanup(@)], runEffect)]
    /\ UNCHANGED sceneIdle

\* the component unmounts: the cleanup of the last run
SceneUnmount ==
    /\ scene.mounted
    /\ scene' = [scene EXCEPT !.mounted = FALSE, !.effects[Current] = cleanup(@)]
    /\ UNCHANGED sceneIdle

\* the browser runs a requested frame of some run of the effect
AnimationFrame ==
    /\ "effects" \in DOMAIN scene
    /\ \E i \in 1..Len(scene.effects) :
          /\ scene.effects[i].requested
          /\ scene.effects[i].frames < MaxFrames
          /\ scene' = [scene EXCEPT !.effects[i] = animate(@)]
    /\ UNCHANGED sceneIdle

NextScene ==
    \/ SceneMount
    \/ SubspacesChange
    \/ SceneUnmount
    \/ AnimationFrame

SpecScene == InitScene /\ [][NextScene]_vars

(***************************************************************************)
(* Properties of one computation request.                                  *)
(***************************************************************************)
\* the rationals 0 and 1 in the stored form
Zero == [numerator |-> 0, denominator |-> 1]
One  == [numerator |-> 1, denominator |-> 1]

\* computeRREF has returned
RREFReturned == pc # "threw" /\ call.pc = "done"

\* the reduced matrix and the input matrix, as grids of Fractions
Reduced == Values(heap, call.m)
Input   == [i \in 1..Len(matrixData) |-> [j \in 1..Len(matrixData[i]) |->
               [numerator |-> matrixData[i][j].num, denominator |-> 1]]]

\* the column (1-based) of the first nonzero entry of a row, 0 for a zero row
Lead(row) ==
    IF \A j \in 1..Len(row) : row[j] = Zero THEN 0
    ELSE Min({j \in 1..Len(row) : row[j] # Zero})

\* R is in reduced row-echelon form
IsRREF(R) ==
    \A i \in 1..Len(R) :
        /\ Lead(R[i]) # 0 =>
              /\ R[i][Lead(R[i])] = One
              /\ \A k \in 1..Len(R) : k # i => R[k][Lead(R[i])] = Zero
        /\ \A k \in (i + 1)..Len(R) :
              /\ Lead(R[i]) = 0 => Lead(R[k]) = 0
              /\ Lead(R[k]) # 0 => Lead(R[i]) < Lead(R[k])

\* the types of the recorded operations
OpTypes == {call.operations.array[k].type : k \in 1..Len(call.operations.array)}

\* C1: the matrix computeRREF returns is in reduced row-echelon form: every
\* nonzero row leads with a 1 that is alone in its column, the leading entries
\* move strictly right going down, and the zero rows are at the bottom.
C1_ReducedRowEchelonForm == RREFReturned => IsRREF(Reduced)

\* C1 witness: a returned 3-row matrix of rank 2 that took a swap, a scaling
\* and eliminations, with a zero row at the bottom
C1_Witness ==
    /\ RREFReturned
    /\ call.m.rows = 3
    /\ Len(call.pivots) = 2
    /\ OpTypes = {"swap", "scale", "add"}
    /\ Lead(Reduced[3]) = 0

\* the rational sum over j of row[j] * x[j] as an unreduced pair <<num, den>>
RECURSIVE Dot(_, _, _)
Dot(row, x, j) ==
    IF j > Len(row) THEN <<0, 1>>
    ELSE LET rest == Dot(row, x, j + 1)
             tn   == row[j].numerator * x[j].numerator
             td   == row[j].denominator * x[j].denominator
         IN  <<tn * rest[2] + rest[1] * td, td * rest[2]>>

\* computeNullSpace has returned
NullSpaceDone == pc \in {"leftNullSpace", "report", "done"}

\* C2: every basis vector x that computeNullSpace returns for the input matrix
\* A has A.x = 0 exactly, row by row of the original matrix.
C2_NullSpaceAnnihilated ==
    NullSpaceDone =>
        \A k \in 1..Len(nullSpace) :
            /\ Len(nullSpace[k]) = Len(Input[1])
            /\ \A i \in 1..Len(Input) : Dot(Input[i], nullSpace[k], 1)[1] = 0

\* C2 witness: a null-space vector with a non-integer entry, for an input
\* without a zero row
C2_Witness ==
    /\ NullSpaceDone
    /\ \A i \in 1..Len(Input) : Lead(Input[i]) # 0
    /\ \E k \in 1..Len(nullSpace) :
           \E j \in 1..Len(nullSpace[k]) : nullSpace[k][j].denominator > 1

\* C3: the report has dim(column space) = dim(row space) = rank,
\* dim(null space) = cols - rank, dim(left null space) = rows - rank, and
\* dimension_check.valid is true.
C3_DimensionTheorem ==
    pc = "done" =>
        /\ results.column_space.dimension = results.rank
        /\ results.row_space.dimension = results.rank
        /\ results.null_space.dimension = results.matrix.cols - results.rank
        /\ results.left_null_space.dimension = results.matrix.rows - results.rank
        /\ results.rank = Len(call.pivots)
        /\ results.dimension_check.valid

\* C3 witness: a report for a non-square matrix whose four dimensions are all
\* positive
C3_Witness ==
    /\ pc = "done"
    /\ results.matrix.rows # results.matrix.cols
    /\ results.rank > 0
    /\ results.null_space.dimension > 0
    /\ results.left_null_space.dimension > 0

\* C4: computeRREF run again, with tracking, on the matrix it returned gives
\* the same matrix entry by entry, the same pivot list and an empty log.
C4_Idempotent ==
    RREFReturned =>
        LET again == computeRREF(heap, call.m, TRUE)
        IN  /\ Values(again.heap, again.rref) = Reduced
            /\ again.pivots = call.pivots
            /\ ~again.operations.null
            /\ again.operations.array = <<>>

\* C4 witness: a returned matrix that differs from the input and has a free
\* column between its two pivot columns
C4_Witness ==
    /\ RREFReturned
    /\ pc = "rref"
    /\ Reduced # Input
    /\ call.pivots = <<0, 2>>

\* the determinant of a square grid of integers, by expansion along row 1
RECURSIVE Det(_)
Det(A) ==
    IF Len(A) = 1 THEN A[1][1]
    ELSE LET Minor(c) == [i \in 1..(Len(A) - 1) |-> [j \in 1..(Len(A) - 1) |->
                             A[i + 1][IF j < c THEN j ELSE j + 1]]]
             RECURSIVE Expand(_)
             Expand(c) == IF c > Len(A) THEN 0
                          ELSE (IF c % 2 = 1 THEN 1 ELSE -1) * A[1][c] * Det(Minor(c))
                               + Expand(c + 1)
         IN  Expand(1)

InputIntegers == [i \in 1..Len(Input) |-> [j \in 1..Len(Input[i]) |->
                     Input[i][j].numerator]]

Invertible == Len(Input) = Len(Input[1]) /\ Det(InputIntegers) # 0

\* C5: for a square invertible input the report has rank n, empty null and
\* left null spaces of dimension 0, and the identity as RREF.
C5_InvertibleGivesIdentity ==
    (pc = "done" /\ Invertible) =>
        /\ results.rank = Len(Input)
        /\ results.null_space.dimension = 0
        /\ results.left_null_space.dimension = 0
        /\ nullSpace = <<>>
        /\ leftNullSpace = <<>>
        /\ results.rref.matrix =
               [i \in 1..Len(Input) |-> [j \in 1..Len(Input) |->
                   Number(IF i = j THEN 1 ELSE 0, 1)]]

\* C5 witness: a report for an invertible 3 x 3 input that is not the identity and
\* needed a swap and an elimination
C5_Witness ==
    /\ pc = "done"
    /\ Invertible
    /\ Len(Input) = 3
    /\ trackOperations
    /\ {"swap", "add"} \subseteq OpTypes

\* C6: from the construction of the Matrix on, through computeRREF (tracked
\* or not) and the four subspace functions, the caller's Matrix keeps its row
\* arrays, their order and their entries.
C6_InputMatrixUntouched ==
    pc \notin {"start", "threw"} =>
        /\ matrix.data = [i \in 1..Len(matrixData) |-> i]
        /\ Values(heap, matrix) = Input

\* C6 witness: an untracked request has finished and the reduced matrix is
\* not the input matrix
C6_Witness ==
    /\ pc = "done"
    /\ ~trackOperations
    /\ Reduced # Input
    /\ Len(call.pivots) = 2

\* equality of two rationals given as numerator and denominator
RatEq(x, y) == x.numerator * y.denominator = y.numerator * x.denominator

\* product and sum of two rationals, not reduced
RatMul(x, y) == [numerator   |-> x.numerator * y.numerator,
                 denominator |-> x.denominator * y.denominator]
RatAdd(x, y) == [numerator   |-> x.numerator * y.denominator + y.numerator * x.denominator,
                 denominator |-> x.denominator * y.denominator]

\* two grids of rationals of the same shape hold equal rationals
GridEq(A, B) ==
    /\ Len(A) = Len(B)
    /\ \A i \in 1..Len(A) :
           /\ Len(A[i]) = Len(B[i])
           /\ \A j \in 1..Len(A[i]) : RatEq(A[i][j], B[i][j])

\* the elementary row operation that the record op describes, applied to the
\* grid B
ApplyOp(op, B) ==
    CASE op.type = "swap" ->
             [B EXCEPT ![op.params.row1 + 1] = B[op.params.row2 + 1],
                       ![op.params.row2 + 1] = B[op.params.row1 + 1]]
      [] op.type = "scale" ->
             [B EXCEPT ![op.params.row + 1] =
                 [j \in 1..Len(@) |-> RatMul(@[j], op.params.scalar)]]
      [] op.type = "add" ->
             [B EXCEPT ![op.params.targetRow + 1] =
                 [j \in 1..Len(@) |->
                     RatAdd(@[j], RatMul(B[op.params.sourceRow + 1][j], op.params.scalar))]]

\* the operation log of the call and the snapshots of its k-th record
Log == call.operations.array
Before(k) == Values(heap, Log[k].matrixBefore)
After(k)  == Values(heap, Log[k].matrixAfter)

\* C9: with tracking, the log replays the elimination: the first record
\* starts from the input matrix, each record's operation applied to its
\* matrixBefore gives its matrixAfter, each matrixAfter is the next record's
\* matrixBefore, and the last matrixAfter is the working matrix, which at the
\* return is the reduced matrix.
C9_LogReplays ==
    (trackOperations /\ pc \notin {"start", "threw"}) =>
        /\ Len(Log) > 0 => Before(1) = Input
        /\ \A k \in 1..Len(Log) : GridEq(ApplyOp(Log[k], Before(k)), After(k))
        /\ \A k \in 1..(Len(Log) - 1) : After(k) = Before(k + 1)
        /\ Len(Log) > 0 => After(Len(Log)) = Reduced

\* C9 witness: a finished tracked run whose log of at least four records has
\* a swap, a scaling by a non-integer and an elimination
C9_Witness ==
    /\ pc = "done"
    /\ trackOperations
    /\ Len(Log) >= 4
    /\ OpTypes = {"swap", "scale", "add"}
    /\ \E k \in 1..Len(Log) :
           Log[k].type = "scale" /\ Log[k].params.scalar.denominator > 1

\* no record of the log describes an operation that changes nothing
NoNoOpRecord ==
    \A k \in 1..Len(Log) :
        /\ Log[k].type = "swap"  => Log[k].params.row1 # Log[k].params.row2
        /\ Log[k].type = "scale" => Log[k].params.scalar \notin {Zero, One}
        /\ Log[k].type = "add"   => Log[k].params.scalar # Zero
        /\ After(k) # Before(k)

\* a step of the tracked elimination either changes the working matrix and
\* appends exactly one record, or leaves both as they are
OneRecordPerChange ==
    (trackOperations /\ pc = "rref" /\ pc' = "rref") =>
        \/ /\ Values(heap', call'.m) # Values(heap, call.m)
           /\ Len(call'.operations.array) = Len(call.operations.array) + 1
        \/ /\ Values(heap', call'.m) = Values(heap, call.m)
           /\ call'.operations.array = call.operations.array

\* C10: the log holds exactly one record per row transformation performed
\* and no no-op record: no swap of a row with itself, no scaling by 1 or 0,
\* no addition of 0 times a row, matrixAfter always differs from
\* matrixBefore, and every change of the working matrix has its record.
C10_ExactlyThePerformedOperations ==
    /\ [](trackOperations => NoNoOpRecord)
    /\ [][OneRecordPerChange]_vars

\* C10 witness: a finished tracked run of rank 2 that recorded an
\* elimination but no swap and only one scaling, the other pivot being 1
C10_Witness ==
    /\ pc = "done"
    /\ trackOperations
    /\ Len(call.pivots) = 2
    /\ "add" \in OpTypes
    /\ "swap" \notin OpTypes
    /\ Cardinality({k \in 1..Len(Log) : Log[k].type = "scale"}) = 1

(***************************************************************************)
(* Properties of Matrix.clone.                                             *)
(***************************************************************************)
\* the row arrays a Matrix refers to
RowsOf(M) == {M.data[i] : i \in 1..Len(M.data)}

\* C7: a clone is deeply independent of its original: the two share no row
\* array, after method calls (set, swapRows, multiplyRow, addRowMultiple) on
\* the clone only the original still holds the entries it held when it was
\* cloned, and after calls on the original only the clone still holds its own
C7_CloneIndependent ==
    copy # Undefined =>
        /\ RowsOf(copy) \cap RowsOf(matrix) = {}
        /\ touched \subseteq {"clone"} => Values(heap, matrix) = atClone.original
        /\ touched \subseteq {"original"} => Values(heap, copy) = atClone.copy

\* two calls were made on the clone only, the last one an addRowMultiple, and
\* the clone no longer holds the entries of the original
C7_Witness ==
    /\ copy # Undefined
    /\ touched = {"clone"}
    /\ nOps = 2
    /\ lastOp.name = "addRowMultiple"
    /\ Values(heap, copy) # Values(heap, matrix)

(***************************************************************************)
(* Properties of Fraction.                                                 *)
(***************************************************************************)
\* f is stored in lowest terms with a positive denominator (which makes 0/1
\* the only stored zero): no integer from 2 on divides both terms
IsReduced(f) ==
    /\ f.denominator > 0
    /\ \A k \in 2..f.denominator : ~(f.numerator % k = 0 /\ f.denominator % k = 0)

\* the last operation was a construction with denominator 0 or a division by
\* a zero Fraction
ZeroDenominator ==
    \/ lastOp.name = "new" /\ lastOp.args[2] = 0
    \/ lastOp.name = "divide" /\ lastOp.args[2].numerator = 0

\* C8: every Fraction the constructor or an arithmetic method gives is in
\* lowest terms with a positive denominator; a construction with denominator
\* 0 and a division by a zero Fraction throw and give no Fraction, and
\* nothing else throws
C8_FractionReduced ==
    /\ IsThrown(value) <=> ZeroDenominator
    /\ ~IsThrown(value) => IsReduced(value)

\* a division by a negative Fraction whose raw quotient had a common factor
C8_Witness ==
    /\ lastOp.name = "divide"
    /\ ~IsThrown(value)
    /\ lastOp.args[2].numerator < 0
    /\ value.denominator < lastOp.args[1].denominator * Abs(lastOp.args[2].numerator)

(***************************************************************************)
(* Properties of the pivot list.                                           *)
(***************************************************************************)
\* the rows of the reduced matrix that are not all zero
NonZeroRowsOfReduced == {i \in 1..Len(Reduced) : Lead(Reduced[i]) # 0}

\* C11: the pivot list computeRREF returns is strictly ascending, holds only
\* column indices in [0, cols), has one entry per nonzero row of the reduced
\* matrix, the i-th being the column of the leading 1 of row i, and its
\* length, the rank, is at most min(rows, cols).
C11_PivotList ==
    RREFReturned =>
        /\ \A i \in 1..(Len(call.pivots) - 1) : call.pivots[i] < call.pivots[i + 1]
        /\ \A i \in 1..Len(call.pivots) : call.pivots[i] \in 0..(call.m.cols - 1)
        /\ NonZeroRowsOfReduced = 1..Len(call.pivots)
        /\ \A i \in 1..Len(call.pivots) :
              /\ Lead(Reduced[i]) = call.pivots[i] + 1
              /\ Reduced[i][call.pivots[i] + 1] = One
        /\ Len(call.pivots) <= call.m.rows
        /\ Len(call.pivots) <= call.m.cols
        /\ pc = "done" => results.rank = Len(call.pivots)

\* C11 witness: a returned run of rank 2 whose pivot columns are not
\* adjacent, on an input with more rows than the rank
C11_Witness ==
    /\ RREFReturned
    /\ Len(call.pivots) = 2
    /\ call.pivots[2] > call.pivots[1] + 1
    /\ call.m.rows > 2

(***************************************************************************)
(* Properties of the input path.                                           *)
(***************************************************************************)
\* the texts of the input contract: an integer -?\d+, a decimal -?\d+\.\d+,
\* a fraction -?\d+\s*/\s*-?\d+
IsDigitsText(s) == Len(s) >= 1 /\ \A k \in 1..Len(s) : IsDigit(s[k])

IsIntegerText(s) ==
    \/ IsDigitsText(s)
    \/ Len(s) >= 2 /\ s[1] = "-" /\ IsDigitsText(Tail(s))

IsDecimalText(s) ==
    \E k \in 2..(Len(s) - 1) :
        /\ s[k] = "."
        /\ IsIntegerText(SubSeq(s, 1, k - 1))
        /\ IsDigitsText(SubSeq(s, k + 1, Len(s)))

IsFractionText(s) ==
    \E k \in 2..(Len(s) - 1) :
        /\ s[k] = "/"
        /\ IsIntegerText(trim(SubSeq(s, 1, k - 1)))
        /\ IsIntegerText(trim(SubSeq(s, k + 1, Len(s))))

\* a fraction text whose denominator is zero
HasZeroDenominator(s) ==
    \E k \in 2..(Len(s) - 1) :
        /\ s[k] = "/"
        /\ \A l \in (k + 1)..Len(s) : s[l] \in {"0", "-", " "}

\* a cell of the input contract: a number, or a text of one of the three forms
WellFormedCell(c) ==
    \/ IsNumber(c)
    \/ /\ IsString(c)
       /\ \/ IsIntegerText(trim(c.chars))
          \/ IsDecimalText(trim(c.chars))
          \/ IsFractionText(trim(c.chars)) /\ ~HasZeroDenominator(trim(c.chars))

\* the grid has an input error: it is empty, has empty rows, is ragged, is
\* larger than 5 x 5, or holds a cell that is not of the input contract
InputError(grid) ==
    \/ Len(grid) = 0
    \/ Len(grid) > MaxDim
    \/ \E i \in 1..Len(grid) :
          \/ Len(grid[i]) = 0
          \/ Len(grid[i]) > MaxDim
          \/ Len(grid[i]) # Len(grid[1])
          \/ \E j \in 1..Len(grid[i]) : ~WellFormedCell(grid[i][j])

\* no Matrix was built and computeRREF was never entered
NothingComputed == heap = <<>> /\ matrix = Undefined /\ call = NoCall /\ results = NoResults

\* C12: every input error is detected before any RREF or subspace
\* computation starts, and computeMatrix returns either {success: true, data}
\* without an error field or {success: false, error} without a data field.
C12_ErrorsBeforeComputation ==
    /\ InputError(input) => NothingComputed /\ pc \in {"parse", "validate", "returned"}
    /\ (pc = "returned" /\ ret.success) => DOMAIN ret = {"success", "data"}
    /\ (pc = "returned" /\ ~ret.success) =>
           DOMAIN ret = {"success", "error"} /\ NothingComputed

\* the part of it that does not depend on which cells the parser accepts: a
\* failure is returned only with nothing computed, and the two shapes of the
\* return value exclude each other
FailureBeforeComputation ==
    /\ (pc = "returned" /\ ret.success) => DOMAIN ret = {"success", "data"}
    /\ (pc = "returned" /\ ~ret.success) =>
           DOMAIN ret = {"success", "error"} /\ NothingComputed

(***************************************************************************)
(* Properties of the dimension checks.                                     *)
(***************************************************************************)
\* the number of rows or the number of columns of the grid is outside 1..5
DimensionOutOfRange(grid) ==
    \/ Len(grid) \notin 1..MaxDim
    \/ \E i \in 1..Len(grid) : Len(grid[i]) \notin 1..MaxDim

\* C14: a grid whose number of rows or of columns is outside 1..5 is rejected
\* by the entry point before any Matrix is built or any RREF step runs.
C14_DimensionsRejected ==
    DimensionOutOfRange(matrixData) =>
        /\ heap = <<>> /\ matrix = Undefined /\ call = NoCall
        /\ pc \in {"start", "threw"}

\* the same for computeMatrix, whose validateMatrix does reject every such grid
DimensionsRejectedByComputeMatrix ==
    DimensionOutOfRange(input) =>
        /\ NothingComputed
        /\ pc \in {"parse", "validate", "returned"}
        /\ pc = "returned" => ~ret.success

(***************************************************************************)
(* Properties of the Matrix constructor.                                   *)
(***************************************************************************)
\* the rows of the grid do not all have the same length
Ragged(grid) == \E i \in 1..Len(grid) : Len(grid[i]) # Len(grid[1])

\* every row of the Matrix has exactly `cols` entries
Rectangular(h, M) ==
    /\ Len(M.data) = M.rows
    /\ \A i \in 1..Len(M.data) : Len(h[M.data[i]]) = M.cols

\* C15: constructing a Matrix from a grid whose rows differ in length fails,
\* so every Matrix that exists is rectangular.
C15_MatrixRectangular ==
    pc = "built" => ~Ragged(matrixData) /\ Rectangular(heap, matrix)

(***************************************************************************)
(* Properties of the conversion of one cell.                               *)
(***************************************************************************)
\* the denominators of the fraction texts
Denominators == (1..MaxQ) \cup {LargeDenominator}

\* the stored Fraction is p / q in lowest terms
IsRational(f, p, q) == IsReduced(f) /\ f.numerator * q = p * f.denominator

\* C16: a cell entered as "p/q" with q # 0 is stored, after parseMatrixCell
\* and the conversion of the Matrix constructor, as the Fraction p/q in
\* lowest terms, also when q is larger than maxDenominator.
C16_FractionCellExact ==
    (pc = "stored" /\ lastOp.name = "parseMatrixCell") =>
        \A p \in -MaxP..MaxP, q \in Denominators :
            cell = FractionText(p, q) => IsRational(value, p, q)

\* the same for the denominators the search of fromDecimal reaches
FractionCellExactWithinSearch ==
    (pc = "stored" /\ lastOp.name = "parseMatrixCell") =>
        \A p \in -MaxP..MaxP, q \in 1..MaxQ :
            cell = FractionText(p, q) => IsRational(value, p, q)

\* the loop taken step by step returns what fromDecimal returns
SearchAgrees ==
    (pc = "stored" /\ lastOp.name = "parseMatrixCell") =>
        \A p \in -MaxP..MaxP, q \in 1..MaxQ :
            cell = FractionText(p, q) => value = fromDecimal(Num(p, q))

\* p and q have no common divisor from 2 on
Coprime(p, q) == \A k \in 2..q : ~(p % k = 0 /\ q % k = 0)

\* the integers of the integer texts
TextIntegers == (-MaxP..MaxP) \cup {12}

\* Fraction.fromString was called and has returned a Fraction
FromStringReturned == lastOp.name = "fromString" /\ pc = "stored"

\* Fraction.fromString was called and has not thrown
FromStringNotThrown == lastOp.name = "fromString" /\ pc # "threw"

\* C17: Fraction.fromString("p/q").toString() is "p/q" for p/q in lowest
\* terms with q > 1, Fraction.fromString("n").toString() is "n" for an
\* integer n, Fraction.fromString("0.5") is the Fraction 1/2, and
\* Fraction.fromString("p/0") throws "Denominator cannot be zero".
C17_RoundTrip ==
    lastOp.name = "fromString" =>
        /\ \A p \in -MaxP..MaxP, q \in Denominators \ {1} :
              (cell = FractionText(p, q) /\ Coprime(p, q)) =>
                  /\ pc # "threw"
                  /\ pc = "stored" => toString(value) = cell
        /\ \A n \in TextIntegers :
              cell = IntegerText(n) =>
                  /\ pc # "threw"
                  /\ pc = "stored" => toString(value) = cell
        /\ cell = String(<<"0", ".", "5">>) =>
                  /\ pc # "threw"
                  /\ pc = "stored" => value = [numerator |-> 1, denominator |-> 2]
        /\ \A p \in -MaxP..MaxP :
              cell = FractionText(p, 0) =>
                  /\ pc \in {"string", "threw"}
                  /\ pc = "threw" => loop.error = "Denominator cannot be zero"

C17_Witness ==
    /\ FromStringReturned
    /\ cell = FractionText(-2, LargeDenominator)
    /\ toString(value) = cell

\* C18: a cell text that is not a well-formed integer, decimal or fraction
\* (the empty text included) makes parseMatrixCell and Fraction.fromString
\* throw; neither yields a value for it.
C18_ParserRejectsMalformed ==
    ~WellFormedCell(cell) => pc \in {"cell", "string", "threw"}

\* the other direction: a well-formed text is never rejected
WellFormedAccepted == WellFormedCell(cell) => pc # "threw"

(***************************************************************************)
(* Termination of computeRREF.                                             *)
(***************************************************************************)
\* computeRREF is running or has returned
Entered == call.pc # "idle"

\* currentRow counts the recorded pivots and stays within the rows, the
\* column index stays within the columns
PivotStepsBounded ==
    Entered =>
        /\ call.currentRow = Len(call.pivots)
        /\ call.currentRow <= call.m.rows
        /\ call.col <= call.m.cols
        /\ call.currentRow <= call.col
        /\ Len(call.pivots) <= call.m.rows /\ Len(call.pivots) <= call.m.cols

\* a running call has a step that changes it: the step it takes next moves
\* its position, its column or its elimination cursor
StepChangesCall == Running => Step(heap, call).call # call

\* this step ends an iteration of the loop of line 148
IterationEnds == Entered /\ call.pc \in {"pivot", "elim"} /\ call'.pc = "pivot"

\* an iteration that ends moves to the next column, a step inside an
\* iteration or the return leaves the column; currentRow grows by one exactly
\* when a pivot is recorded
ColumnAdvances ==
    (Entered /\ call' # call) =>
        /\ call'.col = IF IterationEnds THEN call.col + 1 ELSE call.col
        /\ \/ /\ call'.pivots = Append(call.pivots, call.col)
              /\ call'.currentRow = call.currentRow + 1
           \/ /\ call'.pivots = call.pivots
              /\ call'.currentRow = call.currentRow

\* C19: computeRREF terminates, after at most min(rows, cols) pivot steps:
\* the column index grows by one with every iteration of the loop, currentRow
\* grows by one per recorded pivot and never exceeds rows.
C19_Terminates ==
    /\ []PivotStepsBounded
    /\ []StepChangesCall
    /\ [][ColumnAdvances]_vars
    /\ (pc = "rref") ~> (call.pc = "done")

C19_Witness ==
    /\ RREFReturned
    /\ call.m.rows = 2 /\ call.m.cols = 3
    /\ call.pivots = <<1, 2>>

(***************************************************************************)
(* Properties of the visualization controls.                               *)
(***************************************************************************)
\* C20: the visualization controls are shown for a result exactly when its
\* matrix is 2 x 2 or 3 x 3.
C20_VisualizationShapes ==
    pc = "done" =>
        (canVisualize(results) <=>
            /\ results.matrix.rows = results.matrix.cols
            /\ results.matrix.rows \in {2, 3})

\* what the code does: the controls are shown exactly when neither dimension
\* exceeds 3
VisualizationUpToThree ==
    pc = "done" =>
        (canVisualize(results) <=> Len(matrixData) <= 3 /\ Len(matrixData[1]) <= 3)

(***************************************************************************)
(* Properties of the computation after validation.                         *)
(***************************************************************************)
\* computeAllSpaces runs on a grid that validateMatrix has accepted
Validated == pc \notin {"parse", "validate"} /\ validateMatrix(matrixData) = ""

\* C13: once the grid has passed validateMatrix, computeAllSpaces raises no
\* error: computeRREF does not throw, computeAllSpaces does not throw, and
\* computeMatrix returns the data.
C13_NoErrorAfterValidation ==
    Validated =>
        /\ call.pc # "threw"
        /\ pc # "threw"
        /\ pc = "returned" => ret.success

\* the part of it about division, for grids of small numbers: no step of
\* computeRREF divides by zero, and no entry of the working matrix has the
\* denominator 0
NoDivisionByZero ==
    (Validated /\ call.pc \in {"pivot", "scale", "elim", "done"}) =>
        /\ call.pc = "scale" => ~isZero(get(heap, call.m, call.currentRow, call.col))
        /\ \A i \in 1..Len(call.m.data) : \A k \in 1..Len(heap[call.m.data[i]]) :
               heap[call.m.data[i]][k].denominator # 0

(***************************************************************************)
(* Properties of the pivot search.                                         *)
(***************************************************************************)
\* computeRREF is about to search column call.col for a pivot
AtPivotSearch == pc = "rref" /\ call.pc = "pivot" /\ LoopCond(call)

\* the rows (0-based) from currentRow down, and the entry of such a row in
\* the column searched
CandidateRows == call.currentRow..(call.m.rows - 1)
Candidate(i) == heap[call.m.data[i + 1]][call.col + 1]

\* |x| <= |y| for stored fractions
AbsAtMost(x, y) == Abs(x.numerator) * y.denominator <= Abs(y.numerator) * x.denominator

\* the rows whose entry is of the largest absolute value, and the first of them
LargestRows == {i \in CandidateRows : \A k \in CandidateRows : AbsAtMost(Candidate(k), Candidate(i))}
LowestLargest == Min(LargestRows)

AllCandidatesZero == \A i \in CandidateRows : Candidate(i).numerator = 0

\* the operations logged so far and after the step
LogLength == Len(call.operations.array)

\* the iteration goes on to the next column, nothing else changes
SkippedColumn ==
    /\ call'.pc = "pivot"
    /\ call'.col = call.col + 1
    /\ call'.currentRow = call.currentRow
    /\ call'.m = call.m
    /\ call'.operations = call.operations
    /\ call'.pivots = call.pivots
    /\ Values(heap', call'.m) = Values(heap, call.m)

\* row p was brought to currentRow; a swap was made and logged exactly when
\* p is another row
BroughtToCurrentRow(p) ==
    /\ call'.pc = "scale"
    /\ call'.col = call.col
    /\ call'.currentRow = call.currentRow
    /\ heap'[call'.m.data[call.currentRow + 1]] = heap[call.m.data[p + 1]]
    /\ heap'[call'.m.data[p + 1]] = heap[call.m.data[call.currentRow + 1]]
    /\ \A i \in 0..(call.m.rows - 1) :
           i \notin {p, call.currentRow} =>
               heap'[call'.m.data[i + 1]] = heap[call.m.data[i + 1]]
    /\ IF p = call.currentRow
       THEN /\ call'.m = call.m
            /\ call'.operations = call.operations
       ELSE /\ call'.m # call.m
            /\ call.trackOperations =>
                  /\ Len(call'.operations.array) = LogLength + 1
                  /\ call'.operations.array[LogLength + 1].type = "swap"
                  /\ call'.operations.array[LogLength + 1].params =
                         [row1 |-> call.currentRow, row2 |-> p]
            /\ ~call.trackOperations => call'.operations = call.operations

\* C21: at every pivot step the row brought to currentRow is the row from
\* currentRow down whose entry in the column has the largest absolute value,
\* the lowest such row on a tie; a swap is made and logged exactly when that
\* row is not currentRow; the column is skipped, currentRow staying, exactly
\* when all those entries are zero.
C21_PartialPivoting ==
    [][AtPivotSearch =>
          IF AllCandidatesZero THEN SkippedColumn
          ELSE BroughtToCurrentRow(LowestLargest)]_vars

\* a swap was just made and logged, and a later row ties with the row that
\* was swapped in
C21_Witness ==
    /\ pc = "rref" /\ call.pc = "scale"
    /\ call.trackOperations
    /\ LogLength > 0
    /\ LET op  == call.operations.array[LogLength]
           was == Values(heap, op.matrixBefore)
       IN  /\ op.type = "swap"
           /\ op.params.row1 = call.currentRow
           /\ \E k \in (op.params.row2 + 2)..Len(was) :
                  AbsAtMost(was[op.params.row2 + 1][call.col + 1], was[k][call.col + 1])

(***************************************************************************)
(* Properties of the null-space basis.                                     *)
(***************************************************************************)
\* the pivot columns and the free columns (0-based) of the reduced matrix
PivotSet == {call.pivots[i] : i \in 1..Len(call.pivots)}
FreeColumns == (0..(call.m.cols - 1)) \ PivotSet

\* the k-th free column in ascending order
NthFree(k) == CHOOSE f \in FreeColumns : Cardinality({g \in FreeColumns : g < f}) = k - 1

\* the entry of v at pivot column p of reduced row i is minus the sum of
\* row[j] * v[j] over the columns j right of p
BackSubstituted(v, i) ==
    LET p    == call.pivots[i]
        tail == Dot(Reduced[i], v, p + 2)
    IN  /\ v[p + 1].numerator * tail[2] + tail[1] * v[p + 1].denominator = 0
        /\ v[p + 1].denominator > 0
        /\ gcd(Abs(v[p + 1].numerator), v[p + 1].denominator) = 1

\* C22: computeNullSpace returns one vector per free column, in ascending
\* order of the free column; the vector of free column f has length cols,
\* 1 at f, 0 at every other free column, and at each pivot column the value
\* that back-substitution over the reduced row gives; without free columns
\* the basis is empty.
C22_NullSpaceBasis ==
    NullSpaceDone =>
        /\ Len(nullSpace) = Cardinality(FreeColumns)
        /\ \A k \in 1..Len(nullSpace) :
               LET v == nullSpace[k]
                   f == NthFree(k)
               IN  /\ Len(v) = call.m.cols
                   /\ v[f + 1] = One
                   /\ \A g \in FreeColumns \ {f} : v[g + 1] = Zero
                   /\ \A i \in 1..Len(call.pivots) : BackSubstituted(v, i)

\* two free columns with a pivot column between them, and a vector with a
\* nonzero entry at a pivot column
C22_Witness ==
    /\ NullSpaceDone
    /\ Len(nullSpace) >= 2
    /\ \E p \in PivotSet : \E f, g \in FreeColumns : f < p /\ p < g
    /\ \E k \in 1..Len(nullSpace) : \E p \in PivotSet : nullSpace[k][p + 1] # Zero

(***************************************************************************)
(* Properties of the column-space basis.                                   *)
(***************************************************************************)
\* computeColumnSpace has returned
ColumnSpaceDone == pc \in {"rowSpace", "nullSpace", "leftNullSpace", "report", "done"}

\* column j (0-based) of a grid
ColumnOf(A, j) == [i \in 1..Len(A) |-> A[i][j + 1]]

\* C23: the column-space basis holds the columns of the input matrix, not of
\* the reduced matrix, at the pivot columns found by computeRREF, in
\* ascending pivot order, each of length rows.
C23_ColumnSpaceFromInput ==
    ColumnSpaceDone =>
        /\ Len(columnSpace) = Len(call.pivots)
        /\ \A k \in 1..Len(columnSpace) :
               /\ Len(columnSpace[k]) = Len(matrixData)
               /\ columnSpace[k] = ColumnOf(Input, call.pivots[k])
               /\ \A l \in 1..(k - 1) : call.pivots[l] < call.pivots[k]

\* a basis of two columns that are not adjacent in the input and that differ
\* from the columns of the reduced matrix
C23_Witness ==
    /\ ColumnSpaceDone
    /\ Len(columnSpace) = 2
    /\ call.pivots[2] > call.pivots[1] + 1
    /\ \A k \in 1..2 : columnSpace[k] # ColumnOf(Reduced, call.pivots[k])

(***************************************************************************)
(* Properties of operation tracking.                                       *)
(***************************************************************************)
\* computeRREF on the same matrix with the other value of the flag
OtherRun == computeRREF(heap, matrix, ~trackOperations)

\* the call of computeAllSpaces has just returned
JustReturned == pc = "rref" /\ call.pc = "done"

C25_NeverThrows ==
    /\ pc = "threw" => ENABLED Catch
    /\ pc = "returned" =>
          /\ "success" \in DOMAIN ret
          /\ ret.success \in BOOLEAN
          /\ ret.success => "data" \in DOMAIN ret
          /\ ~ret.success => "error" \in DOMAIN ret

\* computeMatrix returned a failure for a row that is no array
C25_Witness ==
    /\ pc = "returned"
    /\ ~ret.success
    /\ IsArray(input)
    /\ \E i \in 1..Len(input.elements) : ~IsArray(input.elements[i])

(***************************************************************************)
(* Properties of the step-by-step view.                                    *)
(***************************************************************************)
\* C26: after any sequence of Previous, Next and step clicks and of new
\* operations lists, whenever the list is not empty the step shown is an
\* index of it, 0 <= currentStep < operations.length, and no render reads
\* an operation that is not there.
C26_StepIndexValid ==
    /\ "error" \notin DOMAIN view
    /\ (view.mounted /\ Len(view.operations) > 0) =>
          (0 <= view.currentStep /\ view.currentStep < Len(view.operations))

\* with one operations list for the whole life of the component the index
\* stays inside it
StepIndexValidForOneList ==
    [][(view.mounted /\ view'.mounted /\ view'.operations = view.operations
          /\ view.currentStep < Max2(1, Len(view.operations)))
       => view'.currentStep < Max2(1, Len(view.operations))]_vars

(***************************************************************************)
(* Properties of the matrix input grid.                                    *)
(***************************************************************************)
\* the grid has `rows` rows of `cols` cells, both from 1 to 5
GridShaped ==
    /\ Len(form.matrix) = form.rows
    /\ \A i \in 1..Len(form.matrix) : Len(form.matrix[i]) = form.cols
    /\ 1 <= form.rows /\ form.rows <= 5
    /\ 1 <= form.cols /\ form.cols <= 5

\* a step that changed a dimension kept every cell that is in both grids and
\* left every other cell empty
KeptOnResize ==
    form'.last = "resize" =>
        \A i \in 1..form'.rows : \A j \in 1..form'.cols :
            form'.matrix[i][j] =
                IF i <= form.rows /\ j <= form.cols THEN form.matrix[i][j] ELSE <<>>

\* C27: after any sequence of dimension changes, cell edits, example and
\* initial-matrix loads, Clear and Fill Zeros, the grid has exactly `rows`
\* rows of exactly `cols` cells with 1 <= rows, cols <= 5; a dimension change
\* keeps the cells that are in both grids and makes every new cell empty.
C27_GridShape == [](form.mounted => GridShaped) /\ [][KeptOnResize]_vars

\* a grid that was loaded, edited, made smaller and made larger again: it
\* holds a kept cell and a new empty one
C27_Witness ==
    /\ form.mounted
    /\ form.last = "resize"
    /\ form.edits > 0
    /\ form.rows = 5 /\ form.cols = 3
    /\ form.matrix[1][1] = <<"7">>
    /\ form.matrix[2][2] = <<"5">>
    /\ form.matrix[5][1] = <<>>

(***************************************************************************)
(* Properties of debounce.                                                 *)
(***************************************************************************)
\* how often func was invoked for the k-th call
InvocationsFor(k) ==
    Cardinality({i \in 1..Len(debounced.invoked) : debounced.invoked[i].after = k})

\* func runs only for the most recent call, with its arguments, and not
\* before `wait` has passed since it
InvokedAfterWait ==
    \A i \in 1..Len(debounced.invoked) :
        LET inv == debounced.invoked[i]
        IN  /\ inv.after >= 1
            /\ inv.args = debounced.calls[inv.after].args
            /\ inv.at >= debounced.calls[inv.after].at + debounced.wait

OneTimerPending == Cardinality(debounced.pending) <= 1

\* the k-th call ends a burst: the next call came `wait` or more after it
EndsBurst(k) ==
    /\ k < Len(debounced.calls)
    /\ debounced.calls[k + 1].at - debounced.calls[k].at >= debounced.wait

\* C28 as stated: func runs only once `wait` has passed since the most
\* recent call, at most one timer is pending, and every burst of calls, each
\* less than `wait` after the one before, gives exactly one invocation, for
\* the last call of the burst.
C28_DebounceBursts ==
    /\ InvokedAfterWait
    /\ OneTimerPending
    /\ \A k \in 1..Len(debounced.calls) :
          /\ InvocationsFor(k) <= 1
          /\ EndsBurst(k) => InvocationsFor(k) = 1
          /\ (k < Len(debounced.calls) /\ ~EndsBurst(k)) => InvocationsFor(k) = 0

\* the timer, if one is pending, is the one of the last call
PendingIsLast ==
    \A t \in debounced.pending :
        /\ Len(debounced.calls) > 0
        /\ t.args = debounced.calls[Len(debounced.calls)].args
        /\ t.due = debounced.calls[Len(debounced.calls)].at + debounced.wait

\* every call is in one of three states: func ran for it once, its timer is
\* pending, or a later call cancelled its timer
CallsAccounted ==
    \A k \in 1..Len(debounced.calls) :
        /\ InvocationsFor(k) <= 1
        /\ (k < Len(debounced.calls) /\ ~EndsBurst(k)) => InvocationsFor(k) = 0
        /\ k = Len(debounced.calls) => (InvocationsFor(k) = 1 <=> debounced.pending = {})

\* func has run for the last call
LastCallInvoked ==
    Len(debounced.calls) > 0 => InvocationsFor(Len(debounced.calls)) = 1

\* C28 amended: func runs only for the most recent call, with its arguments
\* and not before `wait` has passed since it; at most one timer is pending
\* and it is the one of the last call; a call cancels the pending timer
\* whenever it has not fired yet, so a call whose timer is late and is
\* overtaken by the next call gets no invocation; the last call of all is
\* invoked exactly once.
C28_DebounceTimer ==
    /\ [](InvokedAfterWait /\ OneTimerPending /\ PendingIsLast /\ CallsAccounted)
    /\ <>[]LastCallInvoked

\* a call came `wait` or more after the one before, whose timer had not
\* fired and was cancelled; func then ran for the later call
C28_Witness ==
    /\ Len(debounced.calls) >= 2
    /\ EndsBurst(1)
    /\ InvocationsFor(1) = 0
    /\ InvocationsFor(2) = 1

(***************************************************************************)
(* Properties of throttle.                                                 *)
(***************************************************************************)
\* the first call invokes func, and func runs only during the call it is
\* invoked by, never later
InvokedSynchronously ==
    /\ Len(throttled.calls) >= 1 =>
          /\ Len(throttled.invoked) >= 1
          /\ throttled.invoked[1].call = 1
    /\ \A i \in 1..Len(throttled.invoked) :
          LET inv == throttled.invoked[i]
          IN  /\ inv.at = throttled.calls[inv.call].at
              /\ inv.args = throttled.calls[inv.call].args

\* any two invocations of func are at least `limit` apart
InvocationsSpaced ==
    \A i, j \in 1..Len(throttled.invoked) :
        i < j => throttled.invoked[j].at - throttled.invoked[i].at >= throttled.limit

\* C29: the first call invokes func synchronously, later calls invoke it
\* only after the timer of the previous invocation has fired, so any two
\* invocations are at least `limit` apart, and at most one timer is pending.
C29_ThrottleSpacing ==
    /\ InvokedSynchronously
    /\ InvocationsSpaced
    /\ Cardinality(throttled.pending) <= 1

\* the throttled state always ends
ThrottleEnds == throttled.inThrottle ~> ~throttled.inThrottle

\* what holds whatever func does: func runs only during a call, a timer is
\* pending exactly while inThrottle is set, and there is at most one
ThrottleTimer ==
    /\ InvokedSynchronously
    /\ Cardinality(throttled.pending) <= 1
    /\ throttled.inThrottle <=> throttled.pending # {}

(***************************************************************************)
(* Properties of the animation loop of Vector3DScene.                      *)
(***************************************************************************)
\* the runs of the effect whose loop is live: a frame of theirs is requested
LiveLoops == {i \in 1..Len(scene.effects) : scene.effects[i].requested}

\* C30: once a run of the effect is cleaned up its loop stops: it has no
\* frame requested and draws no frame with the disposed renderer, so at most
\* one loop is live.
C30_LoopStopsOnCleanup ==
    /\ \A i \in 1..Len(scene.effects) :
          scene.effects[i].disposed =>
              /\ ~scene.effects[i].requested
              /\ scene.effects[i].stale = 0
    /\ Cardinality(LiveLoops) <= 1

\* what holds instead: no loop ever ends, one is live for every run so far
LoopsNeverEnd == LiveLoops = 1..Len(scene.effects)

\* all but the current run are disposed, and the current one is while mounted
OneRendererInUse ==
    \A i \in 1..Len(scene.effects) :
        scene.effects[i].disposed <=> (i < Current \/ ~scene.mounted)

====
